---- MODULE Spec2Model ----
(***************************************************************************)
(* Coin selection of the wallet crate (wallet/coin_selection.rs): the fee  *)
(* and effective-value model, decide_change, group_utxos_if_applies, the   *)
(* sorted-selection driver with LargestFirst, OldestFirst and              *)
(* SingleRandomDraw, and the branch-and-bound policy with its fallback.    *)
(*                                                                         *)
(* Amounts are satoshis, fee rates are sat/kwu (250 = 1 sat/vB), weights   *)
(* are weight units.  A request is drawn in Init; one action runs one      *)
(* policy on it; the branch-and-bound search loop advances one iteration   *)
(* per step.                                                               *)
(***************************************************************************)
EXTENDS Integers, Sequences, FiniteSets, TLC

VARIABLES
    required_utxos,        \* CoinSelectionParams.required_utxos
    optional_utxos,        \* CoinSelectionParams.optional_utxos
    fee_rate,              \* CoinSelectionParams.fee_rate, sat/kwu
    target_amount,         \* CoinSelectionParams.target_amount
    drain_script,          \* CoinSelectionParams.drain_script, argument of decide_change
    avoid_partial_spends,  \* CoinSelectionParams.avoid_partial_spends
    remaining,             \* remaining_amount of a direct call of decide_change
    pc,                    \* "ready", "bnb" (inside the search loop), "done"
    algo,                  \* the policy whose coin_select was called
    path,                  \* which code path produced the result
    result,                \* Result<CoinSelectionResult, InsufficientFunds>
    bnb                    \* locals of BranchAndBoundCoinSelection::bnb

vars == <<required_utxos, optional_utxos, fee_rate, target_amount, drain_script,
          avoid_partial_spends, remaining, pc, algo, path, result, bnb>>

params == <<required_utxos, optional_utxos, fee_rate, target_amount, drain_script,
            avoid_partial_spends, remaining>>

----------------------------------------------------------------------------
(* Bounds of the model. *)

MaxReq == 2
MaxOpt == 3
MaxPoolOpt == 2
MaxRemaining == 600

(* Program constants. *)

OUTPUT_GROUP_MAX_ENTRIES == 100
BNB_TOTAL_TRIES == 100000
DEFAULT_SIZE_OF_CHANGE == 31
\* TxIn::default().segwit_weight(): the 41 bytes of outpoint, sequence and empty
\* script_sig count four weight units each, the length byte of the empty
\* witness counts one
SEGWIT_INPUT_WEIGHT == 165
P2WPKH_SATISFACTION_SIZE == 107
DUST_RELAY_TX_FEE == 3000

----------------------------------------------------------------------------
(* Sequence helpers. *)

Range(s) == {s[i] : i \in DOMAIN s}

BoundedSeq(S, n) == UNION {[1..k -> S] : k \in 0..n}

RECURSIVE SumSeq(_)
SumSeq(s) ==
    IF s = <<>> THEN 0
    ELSE IF Len(s) = 1 THEN s[1]
    ELSE SumSeq(SubSeq(s, 1, Len(s) \div 2)) + SumSeq(SubSeq(s, Len(s) \div 2 + 1, Len(s)))

\* the elements of the sequences of ss, one sequence after the other
RECURSIVE Flatten(_)
Flatten(ss) ==
    IF ss = <<>> THEN <<>>
    ELSE IF Len(ss) = 1 THEN ss[1]
    ELSE Flatten(SubSeq(ss, 1, Len(ss) \div 2))
         \o Flatten(SubSeq(ss, Len(ss) \div 2 + 1, Len(ss)))

Perms(n) == {p \in [1..n -> 1..n] : \A i, j \in 1..n : p[i] = p[j] => i = j}

\* every ordering of the elements of s
Orderings(s) == {[i \in 1..Len(s) |-> s[p[i]]] : p \in Perms(Len(s))}

Reverse(s) == [i \in 1..Len(s) |-> s[Len(s) + 1 - i]]

----------------------------------------------------------------------------
(* Weight and fee arithmetic. *)

\* FeeRate * Weight with the division rounding down
FeeRateMulWeight_floor(rate, weight) == (rate * weight) \div 1000

\* FeeRate * Weight: sat/kwu times wu, rounded up to the next satoshi
FeeRateMulWeight(rate, weight) == (rate * weight + 999) \div 1000

\* Weight::from_vb
WeightFromVb(vb) == vb * 4

\* fee_rate * (TxIn::default().segwit_weight() + satisfaction_weight)
InputFee(wu, rate) == FeeRateMulWeight(rate, SEGWIT_INPUT_WEIGHT + wu.satisfaction_weight)

OutputGroup_new(wu, rate) ==
    [weighted_utxo |-> wu,
     fee |-> InputFee(wu, rate),
     effective_value |-> wu.utxo.value - InputFee(wu, rate)]

----------------------------------------------------------------------------
(* The change decision. *)

\* length of the compact-size prefix of a script of n bytes
VarIntLen(n) == IF n < 253 THEN 1 ELSE IF n < 65536 THEN 3 ELSE 5

\* serialize(drain_script).len()
SerializeLen(script) == VarIntLen(script.len) + script.len

\* Script::minimal_non_dust
minimal_non_dust(script) ==
    LET spend == IF script.kind = "op_return" THEN 0
                 ELSE IF script.kind = "witness"
                      THEN 32 + 4 + 1 + 4 + 8 + SerializeLen(script) + (107 \div 4)
                      ELSE 32 + 4 + 1 + 107 + 4 + 8 + SerializeLen(script)
    IN  (DUST_RELAY_TX_FEE * spend) \div 1000

\* IsDust for Amount: the value is at or below the dust threshold of the script
is_dust(value, script) == value <= minimal_non_dust(script)

\* decide_change with the dust test made on the amount before the change fee
decide_change_dust_on_remaining(remaining_amount, rate, script) ==
    LET drain_output_len == SerializeLen(script) + 8
        change_fee == FeeRateMulWeight(rate, WeightFromVb(drain_output_len))
        drain_val == IF remaining_amount >= change_fee
                     THEN remaining_amount - change_fee ELSE 0
    IN  IF is_dust(remaining_amount, script)
        THEN [kind |-> "NoChange",
              dust_threshold |-> minimal_non_dust(script),
              remaining_amount |-> remaining_amount,
              change_fee |-> change_fee]
        ELSE [kind |-> "Change", amount |-> drain_val, fee |-> change_fee]

\* decide_change with a change amount that still contains the change fee
decide_change_gross(remaining_amount, rate, script) ==
    LET drain_output_len == SerializeLen(script) + 8
        change_fee == FeeRateMulWeight(rate, WeightFromVb(drain_output_len))
        drain_val == IF remaining_amount >= change_fee
                     THEN remaining_amount - change_fee ELSE 0
    IN  IF is_dust(drain_val, script)
        THEN [kind |-> "NoChange",
              dust_threshold |-> minimal_non_dust(script),
              remaining_amount |-> remaining_amount,
              change_fee |-> change_fee]
        ELSE [kind |-> "Change", amount |-> remaining_amount, fee |-> change_fee]

decide_change(remaining_amount, rate, script) ==
    LET drain_output_len == SerializeLen(script) + 8
        change_fee == FeeRateMulWeight(rate, WeightFromVb(drain_output_len))
        drain_val == IF remaining_amount >= change_fee
                     THEN remaining_amount - change_fee ELSE 0
    IN  IF is_dust(drain_val, script)
        THEN [kind |-> "NoChange",
              dust_threshold |-> minimal_non_dust(script),
              remaining_amount |-> remaining_amount,
              change_fee |-> change_fee]
        ELSE [kind |-> "Change", amount |-> drain_val, fee |-> change_fee]

----------------------------------------------------------------------------
(* Grouping. *)

\* the elements of s with the script, in the order of s
WithSpk(s, spk) ==
    LET HasSpk(u) == u.utxo.script_pubkey = spk
    IN  SelectSeq(s, HasSpk)

\* chunks that end with an empty chunk when the length is a multiple of n
RECURSIVE Chunks_empty_tail(_, _)
Chunks_empty_tail(s, n) ==
    IF Len(s) < n THEN <<s>>
    ELSE <<SubSeq(s, 1, n)>> \o Chunks_empty_tail(SubSeq(s, n + 1, Len(s)), n)

\* slice::chunks
RECURSIVE Chunks(_, _)
Chunks(s, n) ==
    IF s = <<>> THEN <<>>
    ELSE IF Len(s) <= n THEN <<s>>
    ELSE <<SubSeq(s, 1, n)>> \o Chunks(SubSeq(s, n + 1, Len(s)), n)

\* the group of a script kept whole whatever its length
SplitGroup_never(group) == <<group>>

\* a group that is too long split into chunks of half the size
SplitGroup_by_halves(group) ==
    IF Len(group) > OUTPUT_GROUP_MAX_ENTRIES
    THEN Chunks(group, OUTPUT_GROUP_MAX_ENTRIES \div 2)
    ELSE <<group>>

\* the groups of one script: the whole group, or its chunks when it is too long
SplitGroup(group) ==
    IF Len(group) > OUTPUT_GROUP_MAX_ENTRIES
    THEN Chunks(group, OUTPUT_GROUP_MAX_ENTRIES)
    ELSE <<group>>

\* the scripts of s in order of first occurrence (seen: the scripts to leave out)
SpkOrder(s, seen) ==
    LET IsFirst(i) == /\ s[i].utxo.script_pubkey \notin seen
                      /\ \A j \in 1..(i - 1) :
                            s[j].utxo.script_pubkey # s[i].utxo.script_pubkey
        firsts == SelectSeq([i \in 1..Len(s) |-> i], IsFirst)
    IN  [k \in 1..Len(firsts) |-> s[firsts[k]].utxo.script_pubkey]

\* group_utxos_if_applies that never groups
group_utxos_never(utxos, aps) == {[i \in 1..Len(utxos) |-> <<utxos[i]>>]}

\* The possible return values of group_utxos_if_applies.  The map of scripts
\* is a hash map, whose iteration order is not determined by its content:
\* every order of the scripts is a possible outcome.
group_utxos_if_applies(utxos, aps) ==
    IF ~aps
    THEN {[i \in 1..Len(utxos) |-> <<utxos[i]>>]}
    ELSE {Flatten([i \in 1..Len(spks) |-> SplitGroup(WithSpk(utxos, spks[i]))]) :
            spks \in Orderings(SpkOrder(utxos, {}))}

----------------------------------------------------------------------------
(* Sorting of groups. *)

GroupValue(group) == SumSeq([i \in 1..Len(group) |-> group[i].utxo.value])

GroupFee(group, rate) == SumSeq([i \in 1..Len(group) |-> InputFee(group[i], rate)])

GroupUtxos(group) == [i \in 1..Len(group) |-> group[i].utxo]

\* the sort key of a chain position that does not look at the height
ChainPositionKey_ignores_height(wu) ==
    IF wu.utxo.kind = "Foreign" THEN <<0, 0, 0, 0, 0, 0>>
    ELSE LET pos == wu.utxo.chain_position
         IN  IF pos.kind = "Confirmed"
             THEN <<1, 0, pos.anchor.block_id.hash, pos.anchor.confirmation_time,
                    IF pos.transitively.some THEN 1 ELSE 0, pos.transitively.v>>
             ELSE <<2, IF pos.last_seen.some THEN 1 ELSE 0, pos.last_seen.v, 0, 0, 0>>

\* Option<ChainPosition<ConfirmationBlockTime>> of a UTXO as a tuple that is
\* compared like it.  None (Foreign) comes before Some.  The order of
\* ChainPosition is the derived one: Confirmed before Unconfirmed; two
\* Confirmed by anchor (height, then hash of the block, then confirmation
\* time) and then by transitively; two Unconfirmed by last_seen.  An Option
\* of a number takes two places: None (0, 0) comes before Some(x) (1, x).
ChainPositionKey(wu) ==
    IF wu.utxo.kind = "Foreign" THEN <<0, 0, 0, 0, 0, 0>>
    ELSE LET pos == wu.utxo.chain_position
         IN  IF pos.kind = "Confirmed"
             THEN <<1, pos.anchor.block_id.height, pos.anchor.block_id.hash,
                    pos.anchor.confirmation_time,
                    IF pos.transitively.some THEN 1 ELSE 0, pos.transitively.v>>
             ELSE <<2, IF pos.last_seen.some THEN 1 ELSE 0, pos.last_seen.v, 0, 0, 0>>

\* sort key of OldestFirst: the chain position of the first UTXO of the group
OldestKey(group) == ChainPositionKey(group[1])

\* sort key made of an amount
AmountKey(a) == <<0, a>>

\* the order of sort keys: two keys of the same length, of two places (an
\* amount) or of six (a chain position), compared place by place from the
\* left
KeyLeq(a, b) ==
    IF a[1] # b[1] THEN a[1] < b[1]
    ELSE IF Len(a) = 2 THEN a[2] <= b[2]
    ELSE IF a[2] # b[2] THEN a[2] < b[2]
    ELSE IF a[3] # b[3] THEN a[3] < b[3]
    ELSE IF a[4] # b[4] THEN a[4] < b[4]
    ELSE IF a[5] # b[5] THEN a[5] < b[5]
    ELSE a[6] <= b[6]

\* the orders in which the indices of the set rest can be listed with
\* non-decreasing key: any index of least key first, then the others
RECURSIVE SortedIndices(_, _)
SortedIndices(rest, keys) ==
    IF rest = {} THEN {<<>>}
    ELSE UNION {{<<i>> \o t : t \in SortedIndices(rest \ {i}, keys)} :
                  i \in {j \in rest : \A k \in rest : KeyLeq(keys[j], keys[k])}}

\* the indices of the set rest listed by key, equal keys by index: what a
\* sort by insertion gives
RECURSIVE InsertionSorted(_, _)
InsertionSorted(rest, keys) ==
    IF rest = {} THEN <<>>
    ELSE LET i == CHOOSE j \in rest :
                    \A k \in rest : \/ ~KeyLeq(keys[k], keys[j])
                                    \/ (KeyLeq(keys[j], keys[k]) /\ j <= k)
         IN  <<i>> \o InsertionSorted(rest \ {i}, keys)

\* sort_unstable_by_key.  The library sorts a slice of at most 20 elements by
\* insertion, which leaves elements with equal keys in their order, and it
\* leaves a longer slice that is sorted already as it is.  For any other slice
\* the order of elements with equal keys is not known: they may come out in
\* any order.
SortedByKey(s, keys) ==
    IF \/ Len(s) <= 20
       \/ \A i, j \in 1..Len(s) : i < j => KeyLeq(keys[i], keys[j])
    THEN {[i \in 1..Len(s) |-> s[InsertionSorted(1..Len(s), keys)[i]]]}
    ELSE {[i \in 1..Len(s) |-> s[p[i]]] : p \in SortedIndices(1..Len(s), keys)}

----------------------------------------------------------------------------
(* The sorted-selection driver. *)

\* the scan with a required group treated like an optional one
RECURSIVE Scan_ignores_must_use(_, _, _, _, _, _, _)
Scan_ignores_must_use(items, i, rate, target, selected_amount, fee_amount, selected) ==
    IF i > Len(items)
    THEN [selected_amount |-> selected_amount, fee_amount |-> fee_amount,
          selected |-> selected]
    ELSE IF selected_amount < target + fee_amount
         THEN Scan_ignores_must_use(items, i + 1, rate, target,
                   selected_amount + GroupValue(items[i].group),
                   fee_amount + GroupFee(items[i].group, rate),
                   selected \o GroupUtxos(items[i].group))
         ELSE [selected_amount |-> selected_amount, fee_amount |-> fee_amount,
               selected |-> selected]

\* the scan that takes every item, needed or not
RECURSIVE Scan_takes_all(_, _, _, _, _, _, _)
Scan_takes_all(items, i, rate, target, selected_amount, fee_amount, selected) ==
    IF i > Len(items)
    THEN [selected_amount |-> selected_amount, fee_amount |-> fee_amount,
          selected |-> selected]
    ELSE Scan_takes_all(items, i + 1, rate, target,
                        selected_amount + GroupValue(items[i].group),
                        fee_amount + GroupFee(items[i].group, rate),
                        selected \o GroupUtxos(items[i].group))

\* the scan of select_sorted_utxos from item i on; the iteration ends at the
\* first item that is neither required nor needed
RECURSIVE Scan(_, _, _, _, _, _, _)
Scan(items, i, rate, target, selected_amount, fee_amount, selected) ==
    IF i > Len(items)
    THEN [selected_amount |-> selected_amount, fee_amount |-> fee_amount,
          selected |-> selected]
    ELSE IF items[i].must_use \/ selected_amount < target + fee_amount
         THEN Scan(items, i + 1, rate, target,
                   selected_amount + GroupValue(items[i].group),
                   fee_amount + GroupFee(items[i].group, rate),
                   selected \o GroupUtxos(items[i].group))
         ELSE [selected_amount |-> selected_amount, fee_amount |-> fee_amount,
               selected |-> selected]

\* select_sorted_utxos without the test for insufficient funds
select_sorted_utxos_unchecked(items, rate, target, script) ==
    LET s == Scan(items, 1, rate, target, 0, 0, <<>>)
        amount_needed_with_fees == target + s.fee_amount
    IN  [tag |-> "Ok",
         selected |-> s.selected,
         fee_amount |-> s.fee_amount,
         excess |-> decide_change(s.selected_amount - amount_needed_with_fees,
                                  rate, script)]

\* select_sorted_utxos with an error that leaves the input fees out of needed
select_sorted_utxos_needed_is_target(items, rate, target, script) ==
    LET s == Scan(items, 1, rate, target, 0, 0, <<>>)
        amount_needed_with_fees == target + s.fee_amount
    IN  IF s.selected_amount < amount_needed_with_fees
        THEN [tag |-> "InsufficientFunds",
              needed |-> target,
              available |-> s.selected_amount]
        ELSE [tag |-> "Ok",
              selected |-> s.selected,
              fee_amount |-> s.fee_amount,
              excess |-> decide_change(s.selected_amount - amount_needed_with_fees,
                                       rate, script)]

select_sorted_utxos(items, rate, target, script) ==
    LET s == Scan(items, 1, rate, target, 0, 0, <<>>)
        amount_needed_with_fees == target + s.fee_amount
    IN  IF s.selected_amount < amount_needed_with_fees
        THEN [tag |-> "InsufficientFunds",
              needed |-> amount_needed_with_fees,
              available |-> s.selected_amount]
        ELSE [tag |-> "Ok",
              selected |-> s.selected,
              fee_amount |-> s.fee_amount,
              excess |-> decide_change(s.selected_amount - amount_needed_with_fees,
                                       rate, script)]

\* required groups (must_use) followed by the ordered optional groups
Chain(required_groups, optional_groups) ==
    [i \in 1..Len(required_groups) |-> [must_use |-> TRUE, group |-> required_groups[i]]]
    \o [i \in 1..Len(optional_groups) |-> [must_use |-> FALSE, group |-> optional_groups[i]]]

\* LargestFirst without the reversal of the sorted groups
LargestFirstResults_ascending(req, opt, rate, target, script, aps) ==
    {select_sorted_utxos(Chain(rg, sorted), rate, target, script) :
        <<rg, sorted>> \in
            UNION {{<<r, s>> : s \in SortedByKey(og, [i \in 1..Len(og) |-> AmountKey(GroupValue(og[i]))])} :
                     <<r, og>> \in group_utxos_if_applies(req, aps)
                                   \X group_utxos_if_applies(opt, aps)}}

\* LargestFirst without the sort: the groups reversed as they are
LargestFirstResults_unsorted(req, opt, rate, target, script, aps) ==
    {select_sorted_utxos(Chain(rg, Reverse(og)), rate, target, script) :
        <<rg, og>> \in group_utxos_if_applies(req, aps)
                       \X group_utxos_if_applies(opt, aps)}

\* the results LargestFirstCoinSelection::coin_select can return
LargestFirstResults(req, opt, rate, target, script, aps) ==
    {select_sorted_utxos(Chain(rg, Reverse(sorted)), rate, target, script) :
        <<rg, sorted>> \in
            UNION {{<<r, s>> : s \in SortedByKey(og, [i \in 1..Len(og) |-> AmountKey(GroupValue(og[i]))])} :
                     <<r, og>> \in group_utxos_if_applies(req, aps)
                                   \X group_utxos_if_applies(opt, aps)}}

\* OldestFirst with the sorted groups taken from the end
OldestFirstResults_newest_first(req, opt, rate, target, script, aps) ==
    {select_sorted_utxos(Chain(rg, Reverse(sorted)), rate, target, script) :
        <<rg, sorted>> \in
            UNION {{<<r, s>> : s \in SortedByKey(og, [i \in 1..Len(og) |-> OldestKey(og[i])])} :
                     <<r, og>> \in group_utxos_if_applies(req, aps)
                                   \X group_utxos_if_applies(opt, aps)}}

\* the results OldestFirstCoinSelection::coin_select can return
OldestFirstResults(req, opt, rate, target, script, aps) ==
    {select_sorted_utxos(Chain(rg, sorted), rate, target, script) :
        <<rg, sorted>> \in
            UNION {{<<r, s>> : s \in SortedByKey(og, [i \in 1..Len(og) |-> OldestKey(og[i])])} :
                     <<r, og>> \in group_utxos_if_applies(req, aps)
                                   \X group_utxos_if_applies(opt, aps)}}

\* shuffle_slice: any order of the slice
shuffle_slice(s) == Orderings(s)

\* the results SingleRandomDraw::coin_select can return
SingleRandomDrawResults(req, opt, rate, target, script, aps) ==
    {select_sorted_utxos(Chain(rg, shuffled), rate, target, script) :
        <<rg, shuffled>> \in
            UNION {{<<r, s>> : s \in shuffle_slice(og)} :
                     <<r, og>> \in group_utxos_if_applies(req, aps)
                                   \X group_utxos_if_applies(opt, aps)}}

----------------------------------------------------------------------------
(* Branch and bound. *)

None == [some |-> FALSE, v |-> 0]

Some(x) == [some |-> TRUE, v |-> x]

\* sum of the effective values of a group of OutputGroups
GroupEffectiveValue(group) == SumSeq([i \in 1..Len(group) |-> group[i].effective_value])

\* sum of the effective values of all OutputGroups of a list of groups
TotalEffectiveValue(groups) == SumSeq([i \in 1..Len(groups) |-> GroupEffectiveValue(groups[i])])

\* the OutputGroups of a group, all of them kept
RequiredOgs(group, rate) == [i \in 1..Len(group) |-> OutputGroup_new(group[i], rate)]

\* the OutputGroups of a group, those of non-positive effective value too
OptionalOgs_unfiltered(group, rate) ==
    [i \in 1..Len(group) |-> OutputGroup_new(group[i], rate)]

\* the OutputGroups of a group with positive effective value, in order
OptionalOgs(group, rate) ==
    LET is_positive(og) == og.effective_value > 0
    IN  SelectSeq([i \in 1..Len(group) |-> OutputGroup_new(group[i], rate)], is_positive)

\* calculate_cs_result with the fees of the required UTXOs left out
calculate_cs_result_skip_required(selected_utxos, required, excess) ==
    LET all == Flatten(selected_utxos \o required)
        chosen == Flatten(selected_utxos)
    IN  [tag |-> "Ok",
         selected |-> [i \in 1..Len(all) |-> all[i].weighted_utxo.utxo],
         fee_amount |-> SumSeq([i \in 1..Len(chosen) |-> chosen[i].fee]),
         excess |-> excess]

calculate_cs_result(selected_utxos, required, excess) ==
    LET all == Flatten(selected_utxos \o required)
    IN  [tag |-> "Ok",
         selected |-> [i \in 1..Len(all) |-> all[i].weighted_utxo.utxo],
         fee_amount |-> SumSeq([i \in 1..Len(all) |-> all[i].fee]),
         excess |-> excess]

\* the setups coin_select of BranchAndBound can compute before its checks:
\* the output groups, their sums and the cost of change
BnbSetups(req, opt, rate, aps, size_of_change) ==
    {[required_ogs |-> [i \in 1..Len(rg) |-> RequiredOgs(rg[i], rate)],
      optional_ogs |-> [i \in 1..Len(og) |-> OptionalOgs(og[i], rate)],
      curr_value |->
          TotalEffectiveValue([i \in 1..Len(rg) |-> RequiredOgs(rg[i], rate)]),
      curr_available_value |->
          TotalEffectiveValue([i \in 1..Len(og) |-> OptionalOgs(og[i], rate)]),
      cost_of_change |-> FeeRateMulWeight(rate, WeightFromVb(size_of_change))] :
        <<rg, og>> \in group_utxos_if_applies(req, aps) \X group_utxos_if_applies(opt, aps)}

\* the pre-check without the comparison with the target
PreCheckPasses_any_amount(setup, target) ==
    setup.curr_available_value + setup.curr_value >= 0

\* total_value converts to an Amount that covers the target
PreCheckPasses(setup, target) ==
    /\ setup.curr_available_value + setup.curr_value >= 0
    /\ setup.curr_available_value + setup.curr_value >= target

\* the error of the feasibility pre-check
PreCheckError(setup, target) ==
    LET all == Flatten(setup.required_ogs \o setup.optional_ogs)
    IN  [tag |-> "InsufficientFunds",
         needed |-> target + SumSeq([i \in 1..Len(all) |-> all[i].fee]),
         available |-> SumSeq([i \in 1..Len(all) |-> all[i].weighted_utxo.utxo.value])]

\* the required-only return with the optional groups added to the selection
RequiredOnlyResult_with_optional(setup, rate, target, script) ==
    calculate_cs_result(setup.optional_ogs, setup.required_ogs,
                        decide_change(setup.curr_value - target, rate, script))

\* the return value when the required UTXOs alone exceed the target
RequiredOnlyResult(setup, rate, target, script) ==
    calculate_cs_result(<<>>, setup.required_ogs,
                        decide_change(setup.curr_value - target, rate, script))

\* the pool of bnb after sort_unstable_by_key and reverse
SortedPools(optional_ogs) ==
    {Reverse(s) : s \in SortedByKey(optional_ogs,
                        [i \in 1..Len(optional_ogs) |->
                            AmountKey(GroupEffectiveValue(optional_ogs[i]))])}

\* locals of bnb when it is not running
NoBnb == [required_utxos |-> <<>>, optional_utxos |-> <<>>,
          current_selection |-> <<>>, curr_value |-> 0, curr_available_value |-> 0,
          best_selection |-> <<>>, best_selection_value |-> None,
          target_amount |-> 0, cost_of_change |-> 0,
          size_of_change |-> 0, fallback_algorithm |-> "none", tries |-> 0]

\* the first n flags of sel without their trailing false flags: one flag is
\* popped at a time for as long as the last one is false
RECURSIVE PopFalseFrom(_, _)
PopFalseFrom(sel, n) ==
    IF n > 0 /\ sel[n] = FALSE
    THEN PopFalseFrom(sel, n - 1)
    ELSE SubSeq(sel, 1, n)

\* current_selection without its trailing false flags
PopFalse(sel) == PopFalseFrom(sel, Len(sel))

\* the iteration of the search loop without the test for an overshoot
BnbBody_no_upper_bound(b) ==
    LET out_of_range == b.curr_value + b.curr_available_value < b.target_amount
        in_range == ~out_of_range /\ b.curr_value >= b.target_amount
        backtrack == out_of_range \/ in_range
        better == in_range /\ (~b.best_selection_value.some
                               \/ b.curr_value < b.best_selection_value.v)
        b1 == IF better
              THEN [b EXCEPT !.best_selection = b.current_selection,
                             !.best_selection_value = Some(b.curr_value)]
              ELSE b
        popped == PopFalse(b1.current_selection)
        returned == SumSeq([k \in 1..(Len(b1.current_selection) - Len(popped)) |->
                              GroupEffectiveValue(b1.optional_utxos[Len(popped) + k])])
        n == Len(b1.current_selection)
    IN  IF in_range /\ b.curr_value = b.target_amount
        THEN [status |-> "break", b |-> b1]
        ELSE IF backtrack
        THEN IF popped = <<>>
             THEN [status |-> IF b1.best_selection = <<>> THEN "NoExactMatch" ELSE "break",
                   b |-> [b1 EXCEPT !.current_selection = popped,
                                    !.curr_available_value = @ + returned]]
             ELSE [status |-> "continue",
                   b |-> [b1 EXCEPT
                            !.current_selection = [popped EXCEPT ![Len(popped)] = FALSE],
                            !.curr_available_value = @ + returned,
                            !.curr_value =
                                @ - GroupEffectiveValue(b1.optional_utxos[Len(popped)])]]
        ELSE IF n + 1 > Len(b1.optional_utxos)
        THEN [status |-> "panic", b |-> b1]
        ELSE [status |-> "continue",
              b |-> [b1 EXCEPT
                       !.current_selection = Append(@, TRUE),
                       !.curr_available_value =
                           @ - GroupEffectiveValue(b1.optional_utxos[n + 1]),
                       !.curr_value =
                           @ + GroupEffectiveValue(b1.optional_utxos[n + 1])]]

\* the iteration that does not give the value of a popped group back to
\* curr_available_value
BnbBody_keeps_available(b) ==
    LET out_of_range == \/ b.curr_value + b.curr_available_value < b.target_amount
                        \/ b.curr_value > b.target_amount + b.cost_of_change
        in_range == ~out_of_range /\ b.curr_value >= b.target_amount
        backtrack == out_of_range \/ in_range
        better == in_range /\ (~b.best_selection_value.some
                               \/ b.curr_value < b.best_selection_value.v)
        b1 == IF better
              THEN [b EXCEPT !.best_selection = b.current_selection,
                             !.best_selection_value = Some(b.curr_value)]
              ELSE b
        popped == PopFalse(b1.current_selection)
        returned == 0
        n == Len(b1.current_selection)
    IN  IF in_range /\ b.curr_value = b.target_amount
        THEN [status |-> "break", b |-> b1]
        ELSE IF backtrack
        THEN IF popped = <<>>
             THEN [status |-> IF b1.best_selection = <<>> THEN "NoExactMatch" ELSE "break",
                   b |-> [b1 EXCEPT !.current_selection = popped,
                                    !.curr_available_value = @ + returned]]
             ELSE [status |-> "continue",
                   b |-> [b1 EXCEPT
                            !.current_selection = [popped EXCEPT ![Len(popped)] = FALSE],
                            !.curr_available_value = @ + returned,
                            !.curr_value =
                                @ - GroupEffectiveValue(b1.optional_utxos[Len(popped)])]]
        ELSE IF n + 1 > Len(b1.optional_utxos)
        THEN [status |-> "panic", b |-> b1]
        ELSE [status |-> "continue",
              b |-> [b1 EXCEPT
                       !.current_selection = Append(@, TRUE),
                       !.curr_available_value =
                           @ - GroupEffectiveValue(b1.optional_utxos[n + 1]),
                       !.curr_value =
                           @ + GroupEffectiveValue(b1.optional_utxos[n + 1])]]

\* one iteration of the search loop of bnb on the locals b: the locals after
\* it and how the iteration ends ("continue", "break", "NoExactMatch", or
\* "panic" for an index out of bounds)
BnbBody(b) ==
    LET out_of_range == \/ b.curr_value + b.curr_available_value < b.target_amount
                        \/ b.curr_value > b.target_amount + b.cost_of_change
        in_range == ~out_of_range /\ b.curr_value >= b.target_amount
        backtrack == out_of_range \/ in_range
        better == in_range /\ (~b.best_selection_value.some
                               \/ b.curr_value < b.best_selection_value.v)
        b1 == IF better
              THEN [b EXCEPT !.best_selection = b.current_selection,
                             !.best_selection_value = Some(b.curr_value)]
              ELSE b
        popped == PopFalse(b1.current_selection)
        returned == SumSeq([k \in 1..(Len(b1.current_selection) - Len(popped)) |->
                              GroupEffectiveValue(b1.optional_utxos[Len(popped) + k])])
        n == Len(b1.current_selection)
    IN  IF in_range /\ b.curr_value = b.target_amount
        THEN [status |-> "break", b |-> b1]
        ELSE IF backtrack
        THEN IF popped = <<>>
             THEN [status |-> IF b1.best_selection = <<>> THEN "NoExactMatch" ELSE "break",
                   b |-> [b1 EXCEPT !.current_selection = popped,
                                    !.curr_available_value = @ + returned]]
             ELSE [status |-> "continue",
                   b |-> [b1 EXCEPT
                            !.current_selection = [popped EXCEPT ![Len(popped)] = FALSE],
                            !.curr_available_value = @ + returned,
                            !.curr_value =
                                @ - GroupEffectiveValue(b1.optional_utxos[Len(popped)])]]
        ELSE IF n + 1 > Len(b1.optional_utxos)
        THEN [status |-> "panic", b |-> b1]
        ELSE [status |-> "continue",
              b |-> [b1 EXCEPT
                       !.current_selection = Append(@, TRUE),
                       !.curr_available_value =
                           @ - GroupEffectiveValue(b1.optional_utxos[n + 1]),
                       !.curr_value =
                           @ + GroupEffectiveValue(b1.optional_utxos[n + 1])]]

\* how the call of bnb ends once its loop is left with locals b
BnbOutcome(status, b) ==
    IF status = "panic" THEN "panic"
    ELSE IF status = "NoExactMatch" THEN "NoExactMatch"
    ELSE IF b.best_selection = <<>> THEN "TotalTriesExceeded"
    ELSE "Ok"

\* the groups of the pool flagged true in the selection (zip stops at the
\* shorter of the two)
RECURSIVE SelectedGroups(_, _)
SelectedGroups(pool, sel) ==
    IF pool = <<>> \/ sel = <<>> THEN <<>>
    ELSE IF Head(sel)
         THEN <<Head(pool)>> \o SelectedGroups(Tail(pool), Tail(sel))
         ELSE SelectedGroups(Tail(pool), Tail(sel))

\* the Ok value of bnb with the change decided on the whole selected amount
BnbResult_excess_of_value(b, rate, script) ==
    calculate_cs_result(SelectedGroups(b.optional_utxos, b.best_selection),
                        b.required_utxos,
                        decide_change(b.best_selection_value.v, rate, script))

\* the Ok value of bnb for the locals b
BnbResult(b, rate, script) ==
    calculate_cs_result(SelectedGroups(b.optional_utxos, b.best_selection),
                        b.required_utxos,
                        decide_change(b.best_selection_value.v - b.target_amount,
                                      rate, script))

\* the call of bnb from the locals b on: the iterations of its loop until it
\* is left, and how the call ends
RECURSIVE BnbRun(_)
BnbRun(b) ==
    LET it == BnbBody(b)
    IN  IF it.status = "continue" /\ b.tries + 1 < BNB_TOTAL_TRIES
        THEN BnbRun([it.b EXCEPT !.tries = @ + 1])
        ELSE [outcome |-> BnbOutcome(it.status, it.b), b |-> it.b]

\* The ways coin_select of BranchAndBound can return before it calls the
\* fallback policy, each with the path it takes; the call of the fallback
\* policy is left as the path "fallback" without a result.
BranchAndBoundReturns(req, opt, rate, target, script, aps, size_of_change) ==
    UNION {
        IF ~PreCheckPasses(setup, target)
        THEN {[path |-> "precheck", result |-> PreCheckError(setup, target)]}
        ELSE IF setup.curr_value > target
        THEN {[path |-> "required_only",
               result |-> RequiredOnlyResult(setup, rate, target, script)]}
        ELSE {LET run == BnbRun([required_utxos |-> setup.required_ogs,
                                 optional_utxos |-> pool,
                                 current_selection |-> <<>>,
                                 curr_value |-> setup.curr_value,
                                 curr_available_value |-> setup.curr_available_value,
                                 best_selection |-> <<>>,
                                 best_selection_value |-> None,
                                 target_amount |-> target,
                                 cost_of_change |-> setup.cost_of_change,
                                 size_of_change |-> size_of_change,
                                 fallback_algorithm |-> "none",
                                 tries |-> 0])
              IN  IF run.outcome = "Ok"
                  THEN [path |-> "bnb", result |-> BnbResult(run.b, rate, script)]
                  ELSE [path |-> "fallback", result |-> [tag |-> "None"]] :
                pool \in SortedPools(setup.optional_ogs)} :
        setup \in BnbSetups(req, opt, rate, aps, size_of_change)}

\* the fallback policy called on the optional UTXOs the search kept, those with
\* positive effective value
RECURSIVE PositiveOnly(_, _)
PositiveOnly(opt, rate) ==
    IF opt = <<>> THEN <<>>
    ELSE IF OutputGroup_new(Head(opt), rate).effective_value > 0
         THEN <<Head(opt)>> \o PositiveOnly(Tail(opt), rate)
         ELSE PositiveOnly(Tail(opt), rate)

FallbackResults_on_filtered(name, req, opt, rate, target, script, aps) ==
    IF name = "LargestFirst"
    THEN LargestFirstResults(req, PositiveOnly(opt, rate), rate, target, script, aps)
    ELSE IF name = "OldestFirst"
    THEN OldestFirstResults(req, PositiveOnly(opt, rate), rate, target, script, aps)
    ELSE SingleRandomDrawResults(req, PositiveOnly(opt, rate), rate, target, script, aps)

\* the results the fallback policy can return on the original parameters
FallbackResults(name, req, opt, rate, target, script, aps) ==
    IF name = "LargestFirst" THEN LargestFirstResults(req, opt, rate, target, script, aps)
    ELSE IF name = "OldestFirst" THEN OldestFirstResults(req, opt, rate, target, script, aps)
    ELSE SingleRandomDrawResults(req, opt, rate, target, script, aps)

----------------------------------------------------------------------------
(* The requests of the model. *)

\* a block, its hash as a number that is ordered like the hash
BlockId(height, hash) == [height |-> height, hash |-> hash]

ConfirmationBlockTime(block_id, confirmation_time) ==
    [block_id |-> block_id, confirmation_time |-> confirmation_time]

\* ChainPosition::Confirmed: the anchor and, when the transaction is confirmed
\* through a descendant, the id of that descendant as a number that is
\* ordered like the id
Confirmed(anchor, transitively) ==
    [kind |-> "Confirmed", anchor |-> anchor, transitively |-> transitively,
     last_seen |-> None]

\* ChainPosition::Unconfirmed: when the transaction was last seen, if ever
Unconfirmed(last_seen) ==
    [kind |-> "Unconfirmed", anchor |-> ConfirmationBlockTime(BlockId(0, 0), 0),
     transitively |-> None, last_seen |-> last_seen]

\* the chain position of a UTXO confirmed directly in the block of all-zero
\* hash at the height
ConfirmedAt(confirmation_height, confirmation_time) ==
    Confirmed(ConfirmationBlockTime(BlockId(confirmation_height, 0), confirmation_time),
              None)

LocalUtxo(op, value, spk, sw, pos) ==
    [satisfaction_weight |-> sw,
     utxo |-> [kind |-> "Local", outpoint |-> op, value |-> value,
               script_pubkey |-> spk, chain_position |-> pos]]

\* Three outputs of the wallet.  Output 1 costs more to spend than it is worth
\* at every fee rate of the model and shares its script with output 2.  Output
\* 3 is spent with a lighter witness (64 wu) than the other two, and its fee
\* at 1 sat/vB, 57.25 sat, is rounded up.
Pool ==
    {LocalUtxo(1, 10, "A", P2WPKH_SATISFACTION_SIZE, ConfirmedAt(1, 1)),
     LocalUtxo(2, 300, "A", P2WPKH_SATISFACTION_SIZE, ConfirmedAt(2, 2)),
     LocalUtxo(3, 1000, "B", 64, Unconfirmed(Some(0)))}

\* 1 sat/vB and 4 sat/vB
FeeRates == {250, 1000}

\* at 1 sat/vB the effective values are -58, 232 and 942
Targets == {0, 210, 1174}

P2wpkhScript == [len |-> 22, kind |-> "witness"]

EmptyScript == [len |-> 0, kind |-> "other"]

OpReturnScript == [len |-> 1, kind |-> "op_return"]

DrainScripts == {P2wpkhScript}

SizesOfChange == {DEFAULT_SIZE_OF_CHANGE}

Fallbacks == {"LargestFirst", "OldestFirst", "SingleRandomDraw"}

NoResult == [tag |-> "None"]

Init ==
    /\ required_utxos \in BoundedSeq(Pool, MaxReq)
    /\ optional_utxos \in BoundedSeq(Pool, MaxPoolOpt)
    /\ fee_rate \in FeeRates
    /\ target_amount \in Targets
    /\ drain_script \in DrainScripts
    /\ avoid_partial_spends \in BOOLEAN
    /\ remaining = 0
    /\ pc = "ready"
    /\ algo = "none"
    /\ path = "none"
    /\ result = NoResult
    /\ bnb = NoBnb

----------------------------------------------------------------------------
(* The policies. *)

LargestFirst ==
    /\ pc = "ready"
    /\ result' \in LargestFirstResults(required_utxos, optional_utxos, fee_rate,
                                       target_amount, drain_script, avoid_partial_spends)
    /\ algo' = "LargestFirst"
    /\ path' = "sorted"
    /\ pc' = "done"
    /\ UNCHANGED <<params, bnb>>

OldestFirst ==
    /\ pc = "ready"
    /\ result' \in OldestFirstResults(required_utxos, optional_utxos, fee_rate,
                                      target_amount, drain_script, avoid_partial_spends)
    /\ algo' = "OldestFirst"
    /\ path' = "sorted"
    /\ pc' = "done"
    /\ UNCHANGED <<params, bnb>>

SingleRandomDraw ==
    /\ pc = "ready"
    /\ result' \in SingleRandomDrawResults(required_utxos, optional_utxos, fee_rate,
                                           target_amount, drain_script, avoid_partial_spends)
    /\ algo' = "SingleRandomDraw"
    /\ path' = "sorted"
    /\ pc' = "done"
    /\ UNCHANGED <<params, bnb>>

\* coin_select of a BranchAndBound with the given size_of_change returns
\* InsufficientFunds from its pre-check
BnbInsufficientFundsOf(size) ==
    /\ pc = "ready"
    /\ \E setup \in BnbSetups(required_utxos, optional_utxos, fee_rate,
                              avoid_partial_spends, size) :
          /\ ~PreCheckPasses(setup, target_amount)
          /\ result' = PreCheckError(setup, target_amount)
          /\ bnb' = [NoBnb EXCEPT !.size_of_change = size,
                                  !.cost_of_change = setup.cost_of_change]
    /\ algo' = "BranchAndBound"
    /\ path' = "precheck"
    /\ pc' = "done"
    /\ UNCHANGED params

BnbInsufficientFunds == \E size \in SizesOfChange : BnbInsufficientFundsOf(size)

\* coin_select of a BranchAndBound with the given size_of_change returns the
\* required UTXOs alone
BnbRequiredOnlyOf(size) ==
    /\ pc = "ready"
    /\ \E setup \in BnbSetups(required_utxos, optional_utxos, fee_rate,
                              avoid_partial_spends, size) :
          /\ PreCheckPasses(setup, target_amount)
          /\ setup.curr_value > target_amount
          /\ result' = RequiredOnlyResult(setup, fee_rate, target_amount, drain_script)
          /\ bnb' = [NoBnb EXCEPT !.size_of_change = size,
                                  !.cost_of_change = setup.cost_of_change]
    /\ algo' = "BranchAndBound"
    /\ path' = "required_only"
    /\ pc' = "done"
    /\ UNCHANGED params

BnbRequiredOnly == \E size \in SizesOfChange : BnbRequiredOnlyOf(size)

\* coin_select of a BranchAndBound with the given size_of_change calls bnb,
\* which sorts its pool and enters the search loop
BnbStartOf(size) ==
    /\ pc = "ready"
    /\ \E setup \in BnbSetups(required_utxos, optional_utxos, fee_rate,
                              avoid_partial_spends, size) :
          /\ PreCheckPasses(setup, target_amount)
          /\ ~(setup.curr_value > target_amount)
          /\ \E pool \in SortedPools(setup.optional_ogs) :
                bnb' = [required_utxos |-> setup.required_ogs,
                        optional_utxos |-> pool,
                        current_selection |-> <<>>,
                        curr_value |-> setup.curr_value,
                        curr_available_value |-> setup.curr_available_value,
                        best_selection |-> <<>>,
                        best_selection_value |-> None,
                        target_amount |-> target_amount,
                        cost_of_change |-> setup.cost_of_change,
                        size_of_change |-> size,
                        fallback_algorithm |-> "none",
                        tries |-> 0]
    /\ algo' = "BranchAndBound"
    /\ pc' = "bnb"
    /\ UNCHANGED <<params, path, result>>

BnbStart == \E size \in SizesOfChange : BnbStartOf(size)

\* the search loop without a bound on the number of its iterations
BnbIterate_unbounded ==
    /\ pc = "bnb"
    /\ LET it == BnbBody(bnb)
       IN  /\ it.status = "continue"
           /\ bnb' = [it.b EXCEPT !.tries = @ + 1]
    /\ UNCHANGED <<params, pc, algo, path, result>>

\* an iteration of the search loop after which the loop goes on
BnbIterate ==
    /\ pc = "bnb"
    /\ bnb.tries < BNB_TOTAL_TRIES
    /\ LET it == BnbBody(bnb)
       IN  /\ it.status = "continue"
           /\ bnb.tries + 1 < BNB_TOTAL_TRIES
           /\ bnb' = [it.b EXCEPT !.tries = @ + 1]
    /\ UNCHANGED <<params, pc, algo, path, result>>

\* the last iteration of the search loop when bnb returns Ok
BnbSucceed ==
    /\ pc = "bnb"
    /\ bnb.tries < BNB_TOTAL_TRIES
    /\ LET it == BnbBody(bnb)
       IN  /\ it.status # "continue" \/ bnb.tries + 1 = BNB_TOTAL_TRIES
           /\ BnbOutcome(it.status, it.b) = "Ok"
           /\ bnb' = [it.b EXCEPT !.tries = @ + 1]
           /\ result' = BnbResult(it.b, fee_rate, drain_script)
    /\ path' = "bnb"
    /\ pc' = "done"
    /\ UNCHANGED <<params, algo>>

\* the last iteration of the search loop when bnb returns an error, and the
\* call of the fallback policy on the original parameters.  The fallback
\* policy of the selector is read here for the first time, so which policy it
\* is is settled here.
BnbFallbackTo(fb) ==
    /\ pc = "bnb"
    /\ bnb.tries < BNB_TOTAL_TRIES
    /\ LET it == BnbBody(bnb)
       IN  /\ it.status # "continue" \/ bnb.tries + 1 = BNB_TOTAL_TRIES
           /\ BnbOutcome(it.status, it.b) \in {"NoExactMatch", "TotalTriesExceeded"}
           /\ bnb' = [it.b EXCEPT !.tries = @ + 1, !.fallback_algorithm = fb]
           /\ result' \in FallbackResults(fb, required_utxos,
                                          optional_utxos, fee_rate, target_amount,
                                          drain_script, avoid_partial_spends)
    /\ path' = "fallback"
    /\ pc' = "done"
    /\ UNCHANGED <<params, algo>>

BnbFallback == \E fb \in Fallbacks : BnbFallbackTo(fb)

Next ==
    \/ LargestFirst
    \/ OldestFirst
    \/ SingleRandomDraw
    \/ BnbInsufficientFunds
    \/ BnbRequiredOnly
    \/ BnbStart
    \/ BnbIterate
    \/ BnbSucceed
    \/ BnbFallback

Spec == Init /\ [][Next]_vars

\* the steps of a BranchAndBound selector with any fallback policy
NextBnb ==
    \/ BnbInsufficientFunds
    \/ BnbRequiredOnly
    \/ BnbStart
    \/ BnbIterate
    \/ BnbSucceed
    \/ BnbFallback

\* the requests of Init given to BranchAndBound only
SpecBnb == Init /\ [][NextBnb]_vars

\* requests with up to MaxOpt optional UTXOs of the pool and at most one
\* required UTXO
InitLargest ==
    /\ required_utxos \in {<<>>} \cup {<<u>> : u \in Pool}
    /\ optional_utxos \in BoundedSeq(Pool, MaxOpt)
    /\ fee_rate \in FeeRates
    /\ target_amount \in Targets
    /\ drain_script \in DrainScripts
    /\ avoid_partial_spends \in BOOLEAN
    /\ remaining = 0
    /\ pc = "ready"
    /\ algo = "none"
    /\ path = "none"
    /\ result = NoResult
    /\ bnb = NoBnb

\* LargestFirst, called directly or as the fallback policy of a selector
NextLargest ==
    \/ LargestFirst
    \/ BnbInsufficientFunds
    \/ BnbRequiredOnly
    \/ BnbStart
    \/ BnbIterate
    \/ BnbSucceed
    \/ BnbFallbackTo("LargestFirst")

SpecLargest == InitLargest /\ [][NextLargest]_vars

----------------------------------------------------------------------------
(* decide_change called on its own. *)

DecideFeeRates == {0, 250, 1000}

DecideDrainScripts == {P2wpkhScript, EmptyScript, OpReturnScript}

InitDecide ==
    /\ required_utxos = <<>>
    /\ optional_utxos = <<>>
    /\ fee_rate \in DecideFeeRates
    /\ target_amount = 0
    /\ drain_script \in DecideDrainScripts
    /\ avoid_partial_spends = FALSE
    /\ remaining \in 0..MaxRemaining
    /\ pc = "ready"
    /\ algo = "none"
    /\ path = "none"
    /\ result = NoResult
    /\ bnb = NoBnb

DecideChange ==
    /\ pc = "ready"
    /\ result' = [tag |-> "Excess",
                  excess |-> decide_change(remaining, fee_rate, drain_script)]
    /\ algo' = "decide_change"
    /\ pc' = "done"
    /\ UNCHANGED <<params, path, bnb>>

NextDecide == DecideChange

SpecDecide == InitDecide /\ [][NextDecide]_vars

----------------------------------------------------------------------------
(* BranchAndBound on a pool that is too large to search within the budget. *)

TriesGroups == 20

\* output i of the large pool; at 1 sat/vB its effective value is 10000 + 100 i
TriesUtxo(i) == LocalUtxo(100 + i, 10068 + 100 * i, "T", P2WPKH_SATISFACTION_SIZE,
                          ConfirmedAt(i, i))

TriesPool == [i \in 1..TriesGroups |-> TriesUtxo(i)]

\* a required output with effective value 50000 at 1 sat/vB
TriesRequired == LocalUtxo(100, 50068, "R", P2WPKH_SATISFACTION_SIZE, ConfirmedAt(0, 0))

\* No sum of effective values of the pool is within the cost of change of
\* 110050; 23900 is the sum of two of them; 1000000 is more than the pool holds.
TriesTargets == {110050, 23900, 1000000}

InitTries ==
    /\ required_utxos \in {<<>>, <<TriesRequired>>}
    /\ optional_utxos = TriesPool
    /\ fee_rate = 250
    /\ target_amount \in TriesTargets
    /\ drain_script = P2wpkhScript
    /\ avoid_partial_spends \in BOOLEAN
    /\ remaining = 0
    /\ pc = "ready"
    /\ algo = "none"
    /\ path = "none"
    /\ result = NoResult
    /\ bnb = NoBnb

\* a selector whose fallback policy is LargestFirst or OldestFirst
NextTries ==
    \/ BnbInsufficientFunds
    \/ BnbRequiredOnly
    \/ BnbStart
    \/ BnbIterate
    \/ BnbSucceed
    \/ BnbFallbackTo("LargestFirst")
    \/ BnbFallbackTo("OldestFirst")

SpecTries == InitTries /\ [][NextTries]_vars

----------------------------------------------------------------------------
(* Requests whose optional UTXOs tie: equal values, equal chain positions, *)
(* a UTXO that is not of the wallet.                                       *)

\* a UTXO given by the caller, which has no chain position
ForeignUtxo(op, value, spk, sw) ==
    [satisfaction_weight |-> sw,
     utxo |-> [kind |-> "Foreign", outpoint |-> op, value |-> value,
               script_pubkey |-> spk]]

\* Six outputs of 1000 sat with the same satisfaction weight.  Outputs 11, 12
\* and 13 have the same chain position, 11 and 13 to the same script;
\* output 14 is older, output 15 is unconfirmed and output 16 is foreign.
OrderPool ==
    {LocalUtxo(11, 1000, "A", P2WPKH_SATISFACTION_SIZE, ConfirmedAt(5, 5)),
     LocalUtxo(12, 1000, "B", P2WPKH_SATISFACTION_SIZE, ConfirmedAt(5, 5)),
     LocalUtxo(13, 1000, "A", P2WPKH_SATISFACTION_SIZE, ConfirmedAt(5, 5)),
     LocalUtxo(14, 1000, "C", P2WPKH_SATISFACTION_SIZE, ConfirmedAt(2, 2)),
     LocalUtxo(15, 1000, "D", P2WPKH_SATISFACTION_SIZE, Unconfirmed(Some(7))),
     ForeignUtxo(16, 1000, "E", P2WPKH_SATISFACTION_SIZE)}

OrderRequired == LocalUtxo(10, 1000, "R", P2WPKH_SATISFACTION_SIZE, ConfirmedAt(1, 1))

\* at 1 sat/vB every output is worth 932 sat: one output pays 910 and two pay
\* 1840, both within the cost of change
OrderTargets == {910, 1840}

InitOrder ==
    /\ required_utxos \in {<<>>, <<OrderRequired>>}
    /\ optional_utxos \in BoundedSeq(OrderPool, MaxOpt)
    /\ fee_rate = 250
    /\ target_amount \in OrderTargets
    /\ drain_script = P2wpkhScript
    /\ avoid_partial_spends \in BOOLEAN
    /\ remaining = 0
    /\ pc = "ready"
    /\ algo = "none"
    /\ path = "none"
    /\ result = NoResult
    /\ bnb = NoBnb

SpecOrder == InitOrder /\ [][Next]_vars

----------------------------------------------------------------------------
(* Requests whose optional UTXOs differ in every part of the chain          *)
(* position.                                                               *)

\* Eight outputs of 1000 sat with the same satisfaction weight.  Outputs 31,
\* 32, 33 and 35 were confirmed at height 5: 32 in a block of an earlier time
\* than 31, 33 in the block of 31 through a descendant, 35 in a block of an
\* earlier time and a greater hash.  Output 34 was confirmed at height 2 in a
\* block of a later time than any.  Output 36 is unconfirmed and was seen,
\* output 37 is unconfirmed and was never seen, output 38 is foreign.
PositionPool ==
    {LocalUtxo(31, 1000, "A", P2WPKH_SATISFACTION_SIZE, ConfirmedAt(5, 5)),
     LocalUtxo(32, 1000, "B", P2WPKH_SATISFACTION_SIZE, ConfirmedAt(5, 4)),
     LocalUtxo(33, 1000, "C", P2WPKH_SATISFACTION_SIZE,
               Confirmed(ConfirmationBlockTime(BlockId(5, 0), 5), Some(1))),
     LocalUtxo(34, 1000, "D", P2WPKH_SATISFACTION_SIZE, ConfirmedAt(2, 9)),
     LocalUtxo(35, 1000, "E", P2WPKH_SATISFACTION_SIZE,
               Confirmed(ConfirmationBlockTime(BlockId(5, 1), 3), None)),
     LocalUtxo(36, 1000, "F", P2WPKH_SATISFACTION_SIZE, Unconfirmed(Some(7))),
     LocalUtxo(37, 1000, "G", P2WPKH_SATISFACTION_SIZE, Unconfirmed(None)),
     ForeignUtxo(38, 1000, "H", P2WPKH_SATISFACTION_SIZE)}

\* at 1 sat/vB every output is worth 932 sat: one output pays 910 within the
\* cost of change, and no selection pays 1000 within it
PositionTargets == {910, 1000}

InitPosition ==
    /\ required_utxos \in {<<>>, <<OrderRequired>>}
    /\ optional_utxos \in BoundedSeq(PositionPool, MaxOpt)
    /\ fee_rate = 250
    /\ target_amount \in PositionTargets
    /\ drain_script = P2wpkhScript
    /\ avoid_partial_spends = FALSE
    /\ remaining = 0
    /\ pc = "ready"
    /\ algo = "none"
    /\ path = "none"
    /\ result = NoResult
    /\ bnb = NoBnb

\* OldestFirst, called directly or as the fallback policy of a selector
NextPosition ==
    \/ OldestFirst
    \/ BnbInsufficientFunds
    \/ BnbRequiredOnly
    \/ BnbStart
    \/ BnbIterate
    \/ BnbSucceed
    \/ BnbFallbackTo("OldestFirst")

SpecPosition == InitPosition /\ [][NextPosition]_vars

----------------------------------------------------------------------------
(* group_utxos_if_applies called on its own, on lists long enough to be     *)
(* split.                                                                  *)

GroupMaxLen == 201

\* UTXO i of a list: its outpoint is its position
GroupUtxo(i, spk) == LocalUtxo(i, 1000, spk, P2WPKH_SATISFACTION_SIZE, Unconfirmed(Some(0)))

\* n UTXOs of one script
OneScript(n) == [i \in 1..n |-> GroupUtxo(i, "A")]

\* n UTXOs of which every third is of a second script
TwoScripts(n) == [i \in 1..n |-> GroupUtxo(i, IF i % 3 = 0 THEN "B" ELSE "A")]

InitGroup ==
    /\ required_utxos = <<>>
    /\ optional_utxos \in {OneScript(n) : n \in 0..GroupMaxLen}
                           \cup {TwoScripts(n) : n \in 0..GroupMaxLen}
    /\ fee_rate = 0
    /\ target_amount = 0
    /\ drain_script = P2wpkhScript
    /\ avoid_partial_spends \in BOOLEAN
    /\ remaining = 0
    /\ pc = "ready"
    /\ algo = "none"
    /\ path = "none"
    /\ result = NoResult
    /\ bnb = NoBnb

GroupUtxosIfApplies ==
    /\ pc = "ready"
    /\ \E groups \in group_utxos_if_applies(optional_utxos, avoid_partial_spends) :
          result' = [tag |-> "Groups", groups |-> groups]
    /\ algo' = "group_utxos_if_applies"
    /\ pc' = "done"
    /\ UNCHANGED <<params, path, bnb>>

NextGroup == GroupUtxosIfApplies

SpecGroup == InitGroup /\ [][NextGroup]_vars

----------------------------------------------------------------------------
(* Requests with more optional UTXOs of one script than a group holds.      *)

ChunkMaxLen == 102

\* UTXO i of a list: its outpoint is its position
ChunkUtxo(i, value, spk) ==
    LocalUtxo(i, value, spk, P2WPKH_SATISFACTION_SIZE, Unconfirmed(Some(0)))

\* Lists of n UTXOs of script A, n above OUTPUT_GROUP_MAX_ENTRIES, followed by
\* up to two UTXOs of script B.  A UTXO is worth 1000 sat, but for the chosen
\* positions, where it is worth 10 sat, less than the fee to spend it.
ChunkLists ==
    {[i \in 1..(n + k) |-> ChunkUtxo(i, IF i \in {1, n + 1} /\ worthless THEN 10 ELSE 1000,
                                     IF i <= n THEN "A" ELSE "B")] :
        <<n, k, worthless>> \in ((OUTPUT_GROUP_MAX_ENTRIES + 1)..ChunkMaxLen)
                                   \X (0..2) \X BOOLEAN}

ChunkRequired == ChunkUtxo(0, 100000, "R")

\* at 1 sat/vB a UTXO of 1000 sat is worth 932: 100 of them are worth 93200
\* and 99 of them 92268
ChunkTargets == {40000, 92260, 93190, 200000}

InitChunk ==
    /\ required_utxos \in {<<>>, <<ChunkRequired>>}
    /\ optional_utxos \in ChunkLists
    /\ fee_rate = 250
    /\ target_amount \in ChunkTargets
    /\ drain_script = P2wpkhScript
    /\ avoid_partial_spends = TRUE
    /\ remaining = 0
    /\ pc = "ready"
    /\ algo = "none"
    /\ path = "none"
    /\ result = NoResult
    /\ bnb = NoBnb

SpecChunk == InitChunk /\ [][Next]_vars

----------------------------------------------------------------------------
(* filter_duplicates. *)

\* the filter of one list: an element is kept when its outpoint is inserted
\* into visited for the first time
RECURSIVE FilterVisited(_, _)
FilterVisited(s, visited) ==
    IF s = <<>> THEN [kept |-> <<>>, visited |-> visited]
    ELSE LET rest == FilterVisited(Tail(s), visited \cup {Head(s).utxo.outpoint})
         IN  IF Head(s).utxo.outpoint \in visited
             THEN rest
             ELSE [kept |-> <<Head(s)>> \o rest.kept, visited |-> rest.visited]

\* filter_duplicates with a set of visited outpoints for each list
filter_duplicates_separately(required, optional) ==
    <<FilterVisited(required, {}).kept, FilterVisited(optional, {}).kept>>

filter_duplicates(required, optional) ==
    LET r == FilterVisited(required, {})
        o == FilterVisited(optional, r.visited)
    IN  <<r.kept, o.kept>>

\* Outputs 21, 22 and 23, and a second description of output 21 that differs
\* from the first in its value.
FilterPool ==
    {LocalUtxo(21, 1000, "A", P2WPKH_SATISFACTION_SIZE, ConfirmedAt(1, 1)),
     LocalUtxo(22, 2100, "A", P2WPKH_SATISFACTION_SIZE, ConfirmedAt(1, 1)),
     LocalUtxo(23, 1000, "B", P2WPKH_SATISFACTION_SIZE, ConfirmedAt(1, 1)),
     LocalUtxo(21, 3000, "A", P2WPKH_SATISFACTION_SIZE, ConfirmedAt(1, 1))}

InitFilter ==
    /\ required_utxos \in BoundedSeq(FilterPool, MaxReq)
    /\ optional_utxos \in BoundedSeq(FilterPool, MaxOpt)
    /\ fee_rate = 0
    /\ target_amount = 0
    /\ drain_script = P2wpkhScript
    /\ avoid_partial_spends = FALSE
    /\ remaining = 0
    /\ pc = "ready"
    /\ algo = "none"
    /\ path = "none"
    /\ result = NoResult
    /\ bnb = NoBnb

FilterDuplicates ==
    /\ pc = "ready"
    /\ LET filtered == filter_duplicates(required_utxos, optional_utxos)
       IN  result' = [tag |-> "Filtered", required |-> filtered[1],
                      optional |-> filtered[2]]
    /\ algo' = "filter_duplicates"
    /\ pc' = "done"
    /\ UNCHANGED <<params, path, bnb>>

NextFilter == FilterDuplicates

SpecFilter == InitFilter /\ [][NextFilter]_vars

----------------------------------------------------------------------------
(* The policies of the sorted-selection driver on the three outputs of     *)
(* get_test_utxos.                                                         *)

\* get_test_utxos: 100_000, 10 and 200_000 sat, unconfirmed, with the same
\* empty script
TestUtxos ==
    <<LocalUtxo(0, 100000, "", P2WPKH_SATISFACTION_SIZE, Unconfirmed(Some(0))),
      LocalUtxo(1, 10, "", P2WPKH_SATISFACTION_SIZE, Unconfirmed(Some(0))),
      LocalUtxo(2, 200000, "", P2WPKH_SATISFACTION_SIZE, Unconfirmed(Some(0)))>>

\* 300_000, 20_000 and 250_000 sat, each with FEE_AMOUNT of 50 sat
SortedTargets == {300050, 20050, 250050}

InitSorted ==
    /\ required_utxos \in BoundedSeq(Range(TestUtxos), MaxReq)
    /\ optional_utxos \in BoundedSeq(Range(TestUtxos), MaxOpt)
    /\ fee_rate = 250
    /\ target_amount \in SortedTargets
    /\ drain_script = EmptyScript
    /\ avoid_partial_spends \in BOOLEAN
    /\ remaining = 0
    /\ pc = "ready"
    /\ algo = "none"
    /\ path = "none"
    /\ result = NoResult
    /\ bnb = NoBnb

NextSorted ==
    \/ LargestFirst
    \/ OldestFirst
    \/ SingleRandomDraw

SpecSorted == InitSorted /\ [][NextSorted]_vars

----------------------------------------------------------------------------
(* BranchAndBound with other sizes of change and other drain scripts.      *)

\* the default size of a change output and a larger one, in vbytes
ChangeSizes == {DEFAULT_SIZE_OF_CHANGE, 400}

\* at 1 sat/vB output 2 is worth 232 and output 3 is worth 942
ChangeTargets == {210, 600}

InitChange ==
    /\ required_utxos \in {<<>>, <<LocalUtxo(2, 300, "A", P2WPKH_SATISFACTION_SIZE,
                                              ConfirmedAt(2, 2))>>}
    /\ optional_utxos \in BoundedSeq(Pool, MaxOpt)
    /\ fee_rate \in FeeRates
    /\ target_amount \in ChangeTargets
    /\ drain_script \in DecideDrainScripts
    /\ avoid_partial_spends = FALSE
    /\ remaining = 0
    /\ pc = "ready"
    /\ algo = "none"
    /\ path = "none"
    /\ result = NoResult
    /\ bnb = NoBnb

\* a selector built by BranchAndBoundCoinSelection::new with one of the sizes
\* and LargestFirst as its fallback
NextChange ==
    \/ \E size \in ChangeSizes : BnbInsufficientFundsOf(size)
    \/ \E size \in ChangeSizes : BnbRequiredOnlyOf(size)
    \/ \E size \in ChangeSizes : BnbStartOf(size)
    \/ BnbIterate
    \/ BnbSucceed
    \/ BnbFallbackTo("LargestFirst")

SpecChange == InitChange /\ [][NextChange]_vars

----------------------------------------------------------------------------
(* Checks of the model itself. *)

\* the search loop never indexes its pool out of bounds
NoPanic == pc = "bnb" => BnbBody(bnb).status # "panic"

----------------------------------------------------------------------------
(* What the properties are stated with.  These definitions are computed    *)
(* from the request and the result alone.                                  *)

IsDone == pc = "done"

IsOk == pc = "done" /\ result.tag = "Ok"

SelectedValue == SumSeq([i \in 1..Len(result.selected) |-> result.selected[i].value])

\* the satisfaction weight the request gives for a UTXO
SatisfactionWeightOf(u) ==
    (CHOOSE w \in Range(required_utxos) \cup Range(optional_utxos) : w.utxo = u).satisfaction_weight

\* fee of one input: rate times weight, rounded up
ExpectedInputFee(u, sw) == (fee_rate * (165 + sw) + 999) \div 1000

ExpectedFee ==
    SumSeq([i \in 1..Len(result.selected) |->
              ExpectedInputFee(result.selected[i], SatisfactionWeightOf(result.selected[i]))])

ExpectedEffectiveValue(wu) == wu.utxo.value - ExpectedInputFee(wu.utxo, wu.satisfaction_weight)

\* number of positions of the sequence s that hold the outpoint op
CountOutpoint(s, op) == Cardinality({i \in DOMAIN s : s[i].outpoint = op})

RequiredOutpoints == {required_utxos[i].utxo.outpoint : i \in DOMAIN required_utxos}

\* The selected UTXOs that were taken from optional_utxos: the driver returns
\* the required UTXOs first, calculate_cs_result returns them last.
SelectedOptional ==
    IF path \in {"sorted", "fallback"}
    THEN SubSeq(result.selected, Len(required_utxos) + 1, Len(result.selected))
    ELSE SubSeq(result.selected, 1, Len(result.selected) - Len(required_utxos))

OptionalScripts == {optional_utxos[i].utxo.script_pubkey : i \in DOMAIN optional_utxos}

OptionalCount(spk) ==
    Cardinality({i \in DOMAIN optional_utxos : optional_utxos[i].utxo.script_pubkey = spk})

\* some set of all required and some optional UTXOs pays the target and its
\* own input fees
CanPay ==
    \E S \in SUBSET (DOMAIN optional_utxos) :
        SumSeq([i \in DOMAIN required_utxos |-> ExpectedEffectiveValue(required_utxos[i])])
        + SumSeq([i \in DOMAIN optional_utxos |->
                    IF i \in S THEN ExpectedEffectiveValue(optional_utxos[i]) ELSE 0])
        >= target_amount

\* what the selection leaves after the target and the input fees
Leftover ==
    IF result.excess.kind = "NoChange"
    THEN result.excess.remaining_amount
    ELSE result.excess.amount + result.excess.fee

\* fee of the change output assumed by the search
ExpectedCostOfChange == (fee_rate * (4 * bnb.size_of_change) + 999) \div 1000

InWindow ==
    /\ target_amount <= SelectedValue - ExpectedFee
    /\ SelectedValue - ExpectedFee <= target_amount + ExpectedCostOfChange

\* fee of the change output of decide_change
ExpectedChangeFee == (fee_rate * (4 * (SerializeLen(drain_script) + 8)) + 999) \div 1000

ExpectedDrainValue ==
    IF remaining >= ExpectedChangeFee THEN remaining - ExpectedChangeFee ELSE 0

IsExcess == pc = "done" /\ result.tag = "Excess"

----------------------------------------------------------------------------
(* Properties of the selection policies. *)

\* C1: in every successful result of every policy the values of the selected
\* UTXOs add up to at least target_amount + fee_amount.
C1_SelectionCoversTarget ==
    IsOk => SelectedValue >= target_amount + result.fee_amount

\* a branch-and-bound search result of several UTXOs that pays the target and
\* the input fees to the satoshi
C1_Witness ==
    /\ IsOk
    /\ path = "bnb"
    /\ Len(result.selected) >= 2
    /\ SelectedValue = target_amount + result.fee_amount

\* C2: in every successful result every required UTXO is selected, as often as
\* required_utxos holds it.
C2_RequiredAreSelected ==
    IsOk => \A op \in RequiredOutpoints :
               CountOutpoint(result.selected, op)
                 >= CountOutpoint([i \in DOMAIN required_utxos |-> required_utxos[i].utxo], op)

\* the first required UTXO covers the target and its fee, the second one costs
\* more than it is worth, and the driver returns Ok
C2_Witness ==
    /\ IsOk
    /\ path = "sorted"
    /\ Len(required_utxos) = 2
    /\ required_utxos[1].utxo.value
         >= target_amount + ExpectedInputFee(required_utxos[1].utxo,
                                             required_utxos[1].satisfaction_weight)
    /\ ExpectedEffectiveValue(required_utxos[2]) < 0

\* C3: the selected list of a successful result holds no outpoint twice, for
\* any required_utxos and optional_utxos.
C3_NoDuplicateOutpoints ==
    IsOk => \A i, j \in DOMAIN result.selected :
               result.selected[i].outpoint = result.selected[j].outpoint => i = j

\* C4: a policy returns InsufficientFunds only when no set made of all required
\* and some optional UTXOs pays the target and its own input fees.
C4_InsufficientFundsOnlyWhenCannotPay ==
    (IsDone /\ result.tag = "InsufficientFunds") => ~CanPay

\* number of positions of the sequence s that hold u
Copies(s, u) == Cardinality({i \in DOMAIN s : s[i] = u})

\* The chunk of the optional UTXO at position i: its script, and the number of
\* full hundreds of optional UTXOs of that script that come before it.
ChunkOf(i) ==
    <<optional_utxos[i].utxo.script_pubkey,
      Cardinality({j \in 1..(i - 1) : optional_utxos[j].utxo.script_pubkey
                                         = optional_utxos[i].utxo.script_pubkey})
          \div 100>>

OptionalChunks == {ChunkOf(i) : i \in DOMAIN optional_utxos}

\* the selected optional UTXOs are exactly the optional UTXOs at the
\* positions of the set I, as many times as they are listed there
SelectedAreExactly(I) ==
    /\ Len(SelectedOptional) = Cardinality(I)
    /\ \A i \in I :
          Copies(SelectedOptional, optional_utxos[i].utxo)
              = Cardinality({j \in I : optional_utxos[j].utxo = optional_utxos[i].utxo})

\* C5 as stated: with avoid_partial_spends, of the optional UTXOs of one script
\* either all or none are selected, for every policy; for a script with more
\* than 100 optional UTXOs, of every chunk of 100 either all or none.
C5_AllOrNoneOfScript ==
    (IsOk /\ avoid_partial_spends) =>
        \E K \in SUBSET OptionalChunks :
            SelectedAreExactly({i \in DOMAIN optional_utxos : ChunkOf(i) \in K})

\* C5 amended: with avoid_partial_spends, a result of the sorted-selection
\* driver holds all or none of the optional UTXOs of every chunk (the optional
\* UTXOs of a script by hundreds in the order of the request); a result of
\* the branch-and-bound search or of its required-only return holds, of every
\* chunk, all the optional UTXOs that have a positive effective value or
\* none, and no optional UTXO whose effective value is zero or negative.
C5_AllOrNoneOfScriptAmended ==
    (IsOk /\ avoid_partial_spends) =>
        \E K \in SUBSET OptionalChunks :
            SelectedAreExactly({i \in DOMAIN optional_utxos :
                                  /\ ChunkOf(i) \in K
                                  /\ path \in {"sorted", "fallback"}
                                        \/ ExpectedEffectiveValue(optional_utxos[i]) > 0})

\* the search selected the 99 UTXOs worth spending of the first hundred of a
\* script with more than 100 optional UTXOs: it left out the worthless UTXO of
\* that chunk and every UTXO of the second chunk of the script
C5_Witness ==
    /\ IsOk
    /\ avoid_partial_spends
    /\ path = "bnb"
    /\ OptionalCount("A") > 100
    /\ ExpectedEffectiveValue(optional_utxos[1]) <= 0
    /\ {SelectedOptional[i].outpoint : i \in DOMAIN SelectedOptional} = 2..100

\* C6: fee_amount is the sum over the selected UTXOs of the fee of each input,
\* every one rounded on its own; k selected P2WPKH inputs at 1 sat/vB cost 68*k.
C6_FeeIsSumOfInputFees ==
    IsOk =>
        /\ result.fee_amount = ExpectedFee
        /\ (/\ fee_rate = 250
            /\ \A i \in DOMAIN result.selected :
                  SatisfactionWeightOf(result.selected[i]) = 107)
           => result.fee_amount = 68 * Len(result.selected)

\* the fee of the selected UTXOs if their weights were added before the fee
\* rate is applied and the product rounded once
FeeOfSummedWeight ==
    (fee_rate * SumSeq([i \in 1..Len(result.selected) |->
                           165 + SatisfactionWeightOf(result.selected[i])]) + 999) \div 1000

\* two inputs of 229 wu at 1 sat/vB cost 58 + 58 = 116 satoshis, where one
\* rounding of the summed weight would give 115
C6_Witness ==
    /\ IsOk
    /\ fee_rate = 250
    /\ Len(result.selected) >= 2
    /\ result.fee_amount = ExpectedFee
    /\ result.fee_amount > FeeOfSummedWeight

\* C7: decide_change returns Change only when the drain value, max(0, remaining
\* - change_fee), is above the dust threshold of the drain script; at a drain
\* value equal to the threshold it returns NoChange.
C7_ChangeOnlyAboveDust ==
    IsExcess =>
        /\ result.excess.kind = "Change" =>
              /\ ExpectedDrainValue > minimal_non_dust(drain_script)
              /\ result.excess.amount > minimal_non_dust(drain_script)
        /\ ExpectedDrainValue = minimal_non_dust(drain_script) =>
              result.excess.kind = "NoChange"

\* a drain value that is exactly the positive dust threshold gives NoChange
C7_Witness ==
    /\ IsExcess
    /\ minimal_non_dust(drain_script) > 0
    /\ ExpectedDrainValue = minimal_non_dust(drain_script)
    /\ result.excess.kind = "NoChange"

\* C8: Change { amount, fee } has amount + fee = remaining; NoChange carries
\* remaining_amount = remaining and has max(0, remaining - change_fee) at or
\* below its dust_threshold.
C8_DecideChangeRoundTrip ==
    IsExcess =>
        /\ result.excess.kind = "Change" =>
              result.excess.amount + result.excess.fee = remaining
        /\ result.excess.kind = "NoChange" =>
              /\ result.excess.remaining_amount = remaining
              /\ ExpectedDrainValue <= result.excess.dust_threshold

\* a change output whose fee is not zero
C8_Witness ==
    /\ IsExcess
    /\ result.excess.kind = "Change"
    /\ result.excess.fee > 0
    /\ result.excess.amount > 0

\* C9: the values of the selected UTXOs equal target_amount + fee_amount + the
\* leftover, which is remaining_amount of NoChange or amount + fee of Change.
C9_NoSatoshiLost ==
    IsOk => SelectedValue = target_amount + result.fee_amount + Leftover

\* the required-only return of branch and bound with a change output
C9_Witness ==
    /\ IsOk
    /\ path = "required_only"
    /\ result.excess.kind = "Change"
    /\ Len(result.selected) >= 2

\* C10 as stated: a successful result of branch and bound that is not the
\* fallback's lies in the window from target to target + cost_of_change.
C10_BnbSuccessInWindow ==
    (IsOk /\ algo = "BranchAndBound" /\ path # "fallback") => InWindow

\* C10 amended: a result returned by the bnb search itself lies in the window
\* from target to target + cost_of_change.
C10_BnbSearchInWindow ==
    (IsOk /\ path = "bnb") => InWindow

\* a search result strictly above the target and inside the window
C10_Witness ==
    /\ IsOk
    /\ path = "bnb"
    /\ SelectedValue - ExpectedFee > target_amount
    /\ ExpectedCostOfChange > 0

\* C11: when the search of BranchAndBound fails, coin_select returns a result
\* the fallback policy returns when it is called on its own with the original
\* request (all optional UTXOs, also those with non-positive effective value),
\* and a finished call of BranchAndBound never carries an error of the search.
C11_FallbackOnOriginalParams ==
    (IsDone /\ algo = "BranchAndBound") =>
        /\ result.tag \in {"Ok", "InsufficientFunds"}
        /\ (path = "fallback" /\ bnb.fallback_algorithm = "LargestFirst") =>
              result \in LargestFirstResults(required_utxos, optional_utxos, fee_rate,
                                             target_amount, drain_script,
                                             avoid_partial_spends)
        /\ (path = "fallback" /\ bnb.fallback_algorithm = "OldestFirst") =>
              result \in OldestFirstResults(required_utxos, optional_utxos, fee_rate,
                                            target_amount, drain_script,
                                            avoid_partial_spends)
        /\ (path = "fallback" /\ bnb.fallback_algorithm = "SingleRandomDraw") =>
              \E rg \in group_utxos_if_applies(required_utxos, avoid_partial_spends),
                 og \in group_utxos_if_applies(optional_utxos, avoid_partial_spends) :
                 \E shuffled \in shuffle_slice(og) :
                    result = select_sorted_utxos(Chain(rg, shuffled), fee_rate,
                                                 target_amount, drain_script)
        /\ path = "fallback" =>
              bnb.fallback_algorithm \in Fallbacks

\* the search failed and the fallback policy selected an optional UTXO that
\* costs more to spend than it is worth
C11_Witness ==
    /\ IsDone /\ path = "fallback" /\ IsOk
    /\ \E i \in 1..Len(optional_utxos) :
          /\ ExpectedEffectiveValue(optional_utxos[i]) <= 0
          /\ \E j \in 1..Len(result.selected) :
                result.selected[j] = optional_utxos[i].utxo

\* C12: the search of bnb ends within BNB_TOTAL_TRIES iterations of its loop.
\* While the search runs the budget is not used up and the iteration at hand
\* can be carried out (its inner loop over the trailing false flags included);
\* every step of a running search is one more iteration; and the count of
\* iterations never exceeds BNB_TOTAL_TRIES.  The count grows with every step
\* and is bounded, so the search cannot go on forever.
C12_SearchEndsWithinBudget ==
    /\ [](pc = "bnb" => /\ bnb.tries < BNB_TOTAL_TRIES
                        /\ BnbBody(bnb).status # "panic"
                        /\ Len(PopFalse(bnb.current_selection))
                               <= Len(bnb.current_selection))
    /\ [](bnb.tries <= BNB_TOTAL_TRIES)
    /\ [][pc = "bnb" => bnb'.tries = bnb.tries + 1]_vars

\* the search used its whole budget without a result and coin_select returned
C12_Witness ==
    /\ IsDone /\ path = "fallback"
    /\ bnb.tries = BNB_TOTAL_TRIES
    /\ bnb.best_selection = <<>>
    /\ bnb.current_selection # <<>>

\* two results are the same outcome of a call: the same error, or the same set
\* of selected UTXOs with the same fee and the same excess
SameOutcome(r1, r2) ==
    /\ r1.tag = r2.tag
    /\ r1.tag = "InsufficientFunds" => r1 = r2
    /\ r1.tag = "Ok" => /\ Range(r1.selected) = Range(r2.selected)
                        /\ r1.fee_amount = r2.fee_amount
                        /\ r1.excess = r2.excess

\* C13: LargestFirst, OldestFirst and BranchAndBound (when its search succeeds
\* or the required UTXOs are enough) return the same outcome whenever they are
\* called with the same request: every result the policy can return for the
\* request of a finished call is the outcome of that call.
C13_ResultIsFunctionOfParams ==
    IsDone =>
        /\ algo = "LargestFirst" =>
              \A r \in LargestFirstResults(required_utxos, optional_utxos, fee_rate,
                                           target_amount, drain_script,
                                           avoid_partial_spends) :
                 SameOutcome(r, result)
        /\ algo = "OldestFirst" =>
              \A r \in OldestFirstResults(required_utxos, optional_utxos, fee_rate,
                                          target_amount, drain_script,
                                          avoid_partial_spends) :
                 SameOutcome(r, result)
        /\ (algo = "BranchAndBound" /\ path \in {"bnb", "required_only"}) =>
              \A o \in BranchAndBoundReturns(required_utxos, optional_utxos, fee_rate,
                                             target_amount, drain_script,
                                             avoid_partial_spends, bnb.size_of_change) :
                 o.path \in {"bnb", "required_only"} => SameOutcome(o.result, result)

\* the result was computed by OldestFirst, called directly or as the fallback
ByOldestFirst ==
    \/ algo = "OldestFirst"
    \/ (path = "fallback" /\ bnb.fallback_algorithm = "OldestFirst")

\* number of positions of the sequence s that hold u
Occurrences(s, u) == Cardinality({i \in DOMAIN s : s[i] = u})

\* every occurrence of the optional UTXO at position i was selected
AllSelected(i) ==
    Occurrences(SelectedOptional, optional_utxos[i].utxo)
        >= Occurrences([j \in DOMAIN optional_utxos |-> optional_utxos[j].utxo],
                       optional_utxos[i].utxo)

\* some occurrence of the optional UTXO at position i was selected
SomeSelected(i) == Occurrences(SelectedOptional, optional_utxos[i].utxo) > 0

\* C14: OldestFirst selects a foreign optional UTXO only if every optional
\* UTXO of the wallet has been selected.
C14_ForeignSelectedLast ==
    (IsOk /\ ByOldestFirst) =>
        \A i \in DOMAIN optional_utxos :
            (optional_utxos[i].utxo.kind = "Foreign" /\ SomeSelected(i)) =>
                \A j \in DOMAIN optional_utxos :
                    optional_utxos[j].utxo.kind = "Local" => AllSelected(j)

\* C15: without grouping, OldestFirst selects the optional UTXOs of the wallet
\* by chain position: a selected confirmed UTXO is not younger than a confirmed
\* UTXO that was left, and an unconfirmed UTXO is selected only if every
\* confirmed one has been selected.
C15_OldestConfirmedFirst ==
    (IsOk /\ ByOldestFirst /\ ~avoid_partial_spends) =>
        \A i \in DOMAIN optional_utxos :
            (optional_utxos[i].utxo.kind = "Local" /\ SomeSelected(i)) =>
                \A j \in DOMAIN optional_utxos :
                    (/\ optional_utxos[j].utxo.kind = "Local"
                     /\ optional_utxos[j].utxo.chain_position.kind = "Confirmed"
                     /\ ~AllSelected(j)) =>
                        /\ optional_utxos[i].utxo.chain_position.kind = "Confirmed"
                        /\ optional_utxos[i].utxo.chain_position.anchor.block_id.height
                              <= optional_utxos[j].utxo.chain_position.anchor.block_id.height

\* OldestFirst selected the confirmed UTXO of the lower height, which came
\* second in the request and has the later confirmation time, and left the
\* one of the greater height and an unconfirmed one
C15_Witness ==
    /\ IsOk /\ algo = "OldestFirst" /\ ~avoid_partial_spends
    /\ Len(optional_utxos) = 3
    /\ \E i, j, k \in DOMAIN optional_utxos :
          /\ j < i
          /\ optional_utxos[i].utxo.kind = "Local"
          /\ optional_utxos[j].utxo.kind = "Local"
          /\ optional_utxos[k].utxo.kind = "Local"
          /\ optional_utxos[i].utxo.chain_position.kind = "Confirmed"
          /\ optional_utxos[j].utxo.chain_position.kind = "Confirmed"
          /\ optional_utxos[k].utxo.chain_position.kind = "Unconfirmed"
          /\ optional_utxos[i].utxo.chain_position.anchor.block_id.height
                < optional_utxos[j].utxo.chain_position.anchor.block_id.height
          /\ optional_utxos[i].utxo.chain_position.anchor.confirmation_time
                > optional_utxos[j].utxo.chain_position.anchor.confirmation_time
          /\ SelectedOptional = <<optional_utxos[i].utxo>>

\* the result was computed by LargestFirst, called directly or as the fallback
ByLargestFirst ==
    \/ algo = "LargestFirst"
    \/ (path = "fallback" /\ bnb.fallback_algorithm = "LargestFirst")

\* all optional UTXOs have the same value and the same satisfaction weight
AllSameValueAndWeight ==
    \A i, j \in DOMAIN optional_utxos :
        /\ optional_utxos[i].utxo.value = optional_utxos[j].utxo.value
        /\ optional_utxos[i].satisfaction_weight = optional_utxos[j].satisfaction_weight

\* the last k optional UTXOs of the request, the last one first
LastInReverse(k) ==
    [i \in 1..k |-> optional_utxos[Len(optional_utxos) + 1 - i].utxo]

\* C16 as stated: when all optional UTXOs have the same value and weight,
\* LargestFirst and a successful search of bnb select the last UTXOs of the
\* request, the last one first, with or without grouping.
C16_EqualValuesLastFirst ==
    (IsOk /\ (ByLargestFirst \/ path = "bnb") /\ AllSameValueAndWeight) =>
        SelectedOptional = LastInReverse(Len(SelectedOptional))

\* C16: without grouping, when all optional UTXOs have the same value and
\* weight, LargestFirst and a successful search of bnb select the last UTXOs
\* of the request, the last one first.
C16_EqualValuesLastFirstUngrouped ==
    (/\ IsOk /\ (ByLargestFirst \/ path = "bnb") /\ AllSameValueAndWeight
     /\ ~avoid_partial_spends) =>
        SelectedOptional = LastInReverse(Len(SelectedOptional))

\* a search of bnb succeeded with two of three different UTXOs of equal value
C16_Witness ==
    /\ IsOk /\ path = "bnb" /\ ~avoid_partial_spends /\ AllSameValueAndWeight
    /\ Len(optional_utxos) = 3
    /\ \A i, j \in DOMAIN optional_utxos :
          i # j => optional_utxos[i].utxo.outpoint # optional_utxos[j].utxo.outpoint
    /\ Len(SelectedOptional) = 2
    /\ SelectedOptional = <<optional_utxos[3].utxo, optional_utxos[2].utxo>>

\* all optional UTXOs are of the wallet and have the same chain position
AllSameChainPosition ==
    \A i, j \in DOMAIN optional_utxos :
        /\ optional_utxos[i].utxo.kind = "Local"
        /\ optional_utxos[j].utxo.kind = "Local"
        /\ optional_utxos[i].utxo.chain_position = optional_utxos[j].utxo.chain_position

\* the first k optional UTXOs of the request
FirstInOrder(k) == [i \in 1..k |-> optional_utxos[i].utxo]

\* C17 as stated: when all optional UTXOs have the same chain position,
\* OldestFirst selects the first UTXOs of the request, in the order of the
\* request, with or without grouping.
C17_EqualPositionsFirstInOrder ==
    (IsOk /\ ByOldestFirst /\ AllSameChainPosition) =>
        SelectedOptional = FirstInOrder(Len(SelectedOptional))

\* C17: without grouping, when all optional UTXOs have the same chain
\* position, OldestFirst selects the first UTXOs of the request, in the order
\* of the request.
C17_EqualPositionsFirstInOrderUngrouped ==
    (IsOk /\ ByOldestFirst /\ AllSameChainPosition /\ ~avoid_partial_spends) =>
        SelectedOptional = FirstInOrder(Len(SelectedOptional))

\* OldestFirst selected two of three different UTXOs of the same chain position
C17_Witness ==
    /\ IsOk /\ algo = "OldestFirst" /\ ~avoid_partial_spends /\ AllSameChainPosition
    /\ Len(optional_utxos) = 3
    /\ \A i, j \in DOMAIN optional_utxos :
          i # j => optional_utxos[i].utxo.outpoint # optional_utxos[j].utxo.outpoint
    /\ Len(SelectedOptional) = 2
    /\ SelectedOptional = <<optional_utxos[1].utxo, optional_utxos[2].utxo>>

\* the UTXOs of the returned groups, one group after the other
Regrouped == Flatten(result.groups)

\* the returned groups that hold UTXOs of the script
GroupsOf(spk) ==
    {g \in DOMAIN result.groups :
        \E i \in DOMAIN result.groups[g] : result.groups[g][i].utxo.script_pubkey = spk}

\* number of UTXOs of the request with the script
InputCount(spk) ==
    Cardinality({i \in DOMAIN optional_utxos : optional_utxos[i].utxo.script_pubkey = spk})

\* C18: the groups group_utxos_if_applies returns hold every UTXO of its input
\* exactly once.  Without grouping the groups are the UTXOs one by one in
\* input order.  With grouping the UTXOs of a group have the same script, a
\* group has at most OUTPUT_GROUP_MAX_ENTRIES UTXOs, the UTXOs of a script keep
\* their input order within and across its groups, and a script with n UTXOs
\* has ceil(n / 100) groups, all of them but at most one with exactly 100.
\* (The outpoint of a UTXO of these requests is its position in the input.)
C18_GroupsPartitionInput ==
    (IsDone /\ algo = "group_utxos_if_applies") =>
        /\ Len(Regrouped) = Len(optional_utxos)
        /\ \A i \in DOMAIN Regrouped :
              Regrouped[i] = optional_utxos[Regrouped[i].utxo.outpoint]
        /\ {Regrouped[i].utxo.outpoint : i \in DOMAIN Regrouped} = DOMAIN optional_utxos
        /\ ~avoid_partial_spends =>
              result.groups = [i \in DOMAIN optional_utxos |-> <<optional_utxos[i]>>]
        /\ avoid_partial_spends =>
              /\ \A g \in DOMAIN result.groups :
                    /\ Len(result.groups[g]) <= OUTPUT_GROUP_MAX_ENTRIES
                    /\ \A i, j \in DOMAIN result.groups[g] :
                          /\ result.groups[g][i].utxo.script_pubkey
                                = result.groups[g][j].utxo.script_pubkey
                          /\ i < j => result.groups[g][i].utxo.outpoint
                                        < result.groups[g][j].utxo.outpoint
              /\ \A g, h \in DOMAIN result.groups :
                    (/\ g < h
                     /\ result.groups[g] # <<>> /\ result.groups[h] # <<>>
                     /\ result.groups[g][1].utxo.script_pubkey
                           = result.groups[h][1].utxo.script_pubkey) =>
                        result.groups[g][Len(result.groups[g])].utxo.outpoint
                            < result.groups[h][1].utxo.outpoint
              /\ \A spk \in OptionalScripts :
                    /\ Cardinality(GroupsOf(spk))
                          = (InputCount(spk) + OUTPUT_GROUP_MAX_ENTRIES - 1)
                                \div OUTPUT_GROUP_MAX_ENTRIES
                    /\ Cardinality({g \in GroupsOf(spk) :
                                      Len(result.groups[g]) # OUTPUT_GROUP_MAX_ENTRIES}) <= 1

\* 201 UTXOs of one script were grouped into groups of 100, 100 and 1
C18_Witness ==
    /\ IsDone /\ algo = "group_utxos_if_applies" /\ avoid_partial_spends
    /\ Len(optional_utxos) = 201
    /\ OptionalScripts = {"A"}
    /\ Len(result.groups) = 3
    /\ Len(result.groups[1]) = 100
    /\ Len(result.groups[2]) = 100
    /\ Len(result.groups[3]) = 1

\* the elements of s at the positions of the set I, in the order of s
AtPositions(s, I) ==
    [k \in 1..Cardinality(I) |->
        s[CHOOSE i \in I : Cardinality({j \in I : j <= i}) = k]]

\* the positions of required_utxos whose outpoint does not occur earlier in it
FirstInRequired ==
    {i \in DOMAIN required_utxos :
        \A j \in 1..(i - 1) :
            required_utxos[j].utxo.outpoint # required_utxos[i].utxo.outpoint}

\* the positions of optional_utxos whose outpoint occurs neither in
\* required_utxos nor earlier in optional_utxos
FirstInOptional ==
    {i \in DOMAIN optional_utxos :
        /\ \A j \in DOMAIN required_utxos :
              required_utxos[j].utxo.outpoint # optional_utxos[i].utxo.outpoint
        /\ \A j \in 1..(i - 1) :
              optional_utxos[j].utxo.outpoint # optional_utxos[i].utxo.outpoint}

\* C19: filter_duplicates returns the required list without the later repeats
\* of an outpoint and the optional list without the outpoints of the required
\* list and without later repeats, the kept elements in their order, and no
\* outpoint occurs twice in the two returned lists together.
C19_FilterKeepsFirstOccurrences ==
    (IsDone /\ algo = "filter_duplicates") =>
        /\ result.required = AtPositions(required_utxos, FirstInRequired)
        /\ result.optional = AtPositions(optional_utxos, FirstInOptional)
        /\ LET both == result.required \o result.optional
           IN  \A i, j \in DOMAIN both :
                   i # j => both[i].utxo.outpoint # both[j].utxo.outpoint

\* a repeat was removed from the required list, and from the optional list an
\* outpoint of the required list and a repeat, while an element of each stayed
C19_Witness ==
    /\ IsDone /\ algo = "filter_duplicates"
    /\ Len(result.required) >= 1
    /\ Len(result.required) < Len(required_utxos)
    /\ Len(result.optional) >= 1
    /\ \E i \in DOMAIN optional_utxos :
          /\ i \notin FirstInOptional
          /\ \E j \in DOMAIN required_utxos :
                required_utxos[j].utxo.outpoint = optional_utxos[i].utxo.outpoint
    /\ \E i \in DOMAIN optional_utxos :
          /\ i \notin FirstInOptional
          /\ \A j \in DOMAIN required_utxos :
                required_utxos[j].utxo.outpoint # optional_utxos[i].utxo.outpoint

\* the effective value bnb starts from: that of the required UTXOs
RequiredEffectiveValue == TotalEffectiveValue(bnb.required_utxos)

\* the totals of effective value, within the window of the search, that the
\* required UTXOs and a subset of the optional groups given to bnb add up to
WindowTotals ==
    {t \in {RequiredEffectiveValue
              + SumSeq([k \in 1..Len(bnb.optional_utxos) |->
                          IF k \in S THEN GroupEffectiveValue(bnb.optional_utxos[k])
                          ELSE 0]) :
            S \in SUBSET (DOMAIN bnb.optional_utxos)} :
        /\ bnb.target_amount <= t
        /\ t <= bnb.target_amount + bnb.cost_of_change}

\* the search left its loop before its budget of iterations was used up
SearchEndedWithinBudget ==
    /\ IsDone /\ path \in {"bnb", "fallback"}
    /\ bnb.tries < BNB_TOTAL_TRIES

\* C20: when the search of bnb ends within its budget and the required UTXOs
\* with some subset of the optional groups have a total effective value within
\* the window, bnb returns Ok and the total effective value of the returned
\* selection is the least such total (the target itself when a subset reaches
\* it exactly).
C20_BnbReturnsLeastTotal ==
    (SearchEndedWithinBudget /\ WindowTotals # {}) =>
        /\ path = "bnb"
        /\ result.tag = "Ok"
        /\ \A t \in WindowTotals : SelectedValue - result.fee_amount <= t
        /\ SelectedValue - result.fee_amount \in WindowTotals

\* the iteration at hand is the last one of the call of bnb: the loop is left
\* in it or the budget of iterations ends with it
LastIteration ==
    /\ pc = "bnb"
    /\ BnbBody(bnb).status # "continue" \/ bnb.tries + 1 = BNB_TOTAL_TRIES

\* how the call of bnb ends after the iteration at hand
BnbReturn == BnbOutcome(BnbBody(bnb).status, BnbBody(bnb).b)

\* a selection within the window was recorded in the iteration at hand or
\* before it
Recorded == BnbBody(bnb).b.best_selection_value.some

\* the effective value of the required UTXOs and the groups of the recorded
\* selection
RecordedTotal ==
    RequiredEffectiveValue
    + TotalEffectiveValue(SelectedGroups(bnb.optional_utxos,
                                         BnbBody(bnb).b.best_selection))

\* C21: bnb returns TotalTriesExceeded only when its last iteration is the
\* last of the budget and no selection within the window was recorded; it
\* returns NoExactMatch only when the walk over the tree has come back to the
\* empty selection, nothing was recorded, and no subset of the groups is
\* within the window; and whenever a selection was recorded bnb returns Ok
\* with the recorded selection.
C21_BnbErrorsOnlyWithoutRecord ==
    LastIteration =>
        /\ BnbReturn = "TotalTriesExceeded" =>
              /\ bnb.tries + 1 = BNB_TOTAL_TRIES
              /\ ~Recorded
        /\ BnbReturn = "NoExactMatch" =>
              /\ ~Recorded
              /\ BnbBody(bnb).b.current_selection = <<>>
              /\ WindowTotals = {}
        /\ Recorded =>
              /\ BnbReturn = "Ok"
              /\ RecordedTotal = BnbBody(bnb).b.best_selection_value.v
              /\ RecordedTotal \in WindowTotals

\* the optional UTXOs of the request with positive effective value
PositiveOptional ==
    {i \in DOMAIN optional_utxos : ExpectedEffectiveValue(optional_utxos[i]) > 0}

\* sum of f over all required UTXOs and the optional UTXOs with positive
\* effective value
SumOverSpendable(f(_)) ==
    SumSeq([i \in DOMAIN required_utxos |-> f(required_utxos[i])])
    + SumSeq([i \in DOMAIN optional_utxos |->
                IF i \in PositiveOptional THEN f(optional_utxos[i]) ELSE 0])

FeeOf(wu) == ExpectedInputFee(wu.utxo, wu.satisfaction_weight)

ValueOf(wu) == wu.utxo.value

\* C22: coin_select of BranchAndBound returns from its pre-check exactly when
\* the effective values of all required UTXOs and of the optional UTXOs with
\* positive effective value add up to less than target_amount; it then has
\* run neither the search nor the fallback, and the error carries needed =
\* target_amount + the fees of those UTXOs and available = their values.
C22_PreCheckInsufficientFunds ==
    algo = "BranchAndBound" =>
        /\ path = "precheck" <=>
              (pc = "done" /\ SumOverSpendable(ExpectedEffectiveValue) < target_amount)
        /\ SumOverSpendable(ExpectedEffectiveValue) < target_amount => pc = "done"
        /\ path = "precheck" =>
              /\ result = [tag |-> "InsufficientFunds",
                           needed |-> target_amount + SumOverSpendable(FeeOf),
                           available |-> SumOverSpendable(ValueOf)]
              /\ bnb.tries = 0
              /\ bnb.fallback_algorithm = "none"

\* the pre-check failed on a request with a required UTXO of negative effective
\* value, which is counted, an optional UTXO of non-positive effective value,
\* which is not, and an optional UTXO of positive effective value
C22_Witness ==
    /\ IsDone /\ path = "precheck"
    /\ \E i \in DOMAIN required_utxos : ExpectedEffectiveValue(required_utxos[i]) < 0
    /\ \E i \in DOMAIN optional_utxos : i \notin PositiveOptional
    /\ PositiveOptional # {}
    /\ result.available
          < SumSeq([i \in DOMAIN required_utxos |-> required_utxos[i].utxo.value])
            + SumSeq([i \in DOMAIN optional_utxos |-> optional_utxos[i].utxo.value])

\* the result was computed by the sorted-selection driver, for a policy called
\* directly or as the fallback
ByDriver == path \in {"sorted", "fallback"}

\* sum of f over all required and all optional UTXOs
SumOverAll(f(_)) ==
    SumSeq([i \in DOMAIN required_utxos |-> f(required_utxos[i])])
    + SumSeq([i \in DOMAIN optional_utxos |-> f(optional_utxos[i])])

\* C23: when the sorted-selection driver returns InsufficientFunds, available
\* is the sum of the values of all required and optional UTXOs (every one of
\* them was included) and needed is target_amount + the sum of their input
\* fees; for the optional UTXOs 100_000, 10 and 200_000 at 1 sat/vB and target
\* 300_050 every policy returns needed 300_254 and available 300_010.
C23_InsufficientFundsCountsAll ==
    /\ (IsDone /\ ByDriver /\ result.tag = "InsufficientFunds") =>
          /\ result.available = SumOverAll(ValueOf)
          /\ result.needed = target_amount + SumOverAll(FeeOf)
    /\ (/\ IsDone /\ ByDriver /\ required_utxos = <<>> /\ fee_rate = 250
        /\ target_amount = 300050
        /\ Len(optional_utxos) = 3
        /\ {optional_utxos[i].utxo.value : i \in DOMAIN optional_utxos}
              = {100000, 10, 200000}
        /\ \A i \in DOMAIN optional_utxos : optional_utxos[i].satisfaction_weight = 107) =>
          result = [tag |-> "InsufficientFunds", needed |-> 300254,
                    available |-> 300010]

\* SingleRandomDraw was called on the three UTXOs with target 300_050 and
\* returned InsufficientFunds
C23_Witness ==
    /\ IsDone /\ algo = "SingleRandomDraw"
    /\ required_utxos = <<>>
    /\ optional_utxos = TestUtxos
    /\ target_amount = 300050
    /\ result.tag = "InsufficientFunds"
    /\ result.needed = 300254

\* the values of the UTXOs of a list of groups, summed
ValueOfGroups(groups) ==
    SumSeq([i \in DOMAIN Flatten(groups) |-> ValueOf(Flatten(groups)[i])])

\* the input fees of the UTXOs of a list of groups, summed
FeeOfGroups(groups) ==
    SumSeq([i \in DOMAIN Flatten(groups) |-> FeeOf(Flatten(groups)[i])])

\* the groups taken so far do not pay the target and their own input fees
StillNeeded(groups) == ValueOfGroups(groups) < target_amount + FeeOfGroups(groups)

\* C24: a successful result of the sorted-selection driver is made of all
\* required groups followed by the first k optional groups of some order of
\* the optional groups; every one of the k groups was taken when the groups
\* before it did not pay the target and their fees (so without the last one
\* of them the target is not paid), and if a group was left the groups taken
\* pay the target and their fees.
C24_SelectedIsNeededPrefix ==
    (IsOk /\ ByDriver) =>
        \E rg \in group_utxos_if_applies(required_utxos, avoid_partial_spends),
           gs \in group_utxos_if_applies(optional_utxos, avoid_partial_spends) :
           \E og \in Orderings(gs) :
              \E k \in 0..Len(og) :
                 /\ result.selected = GroupUtxos(Flatten(rg \o SubSeq(og, 1, k)))
                 /\ \A j \in 1..k : StillNeeded(rg \o SubSeq(og, 1, j - 1))
                 /\ k < Len(og) => ~StillNeeded(rg \o SubSeq(og, 1, k))

\* LargestFirst took two of three optional UTXOs after a required one: the
\* first two did not pay the target, the three do
C24_Witness ==
    /\ IsOk /\ algo = "LargestFirst" /\ ~avoid_partial_spends
    /\ Len(required_utxos) = 1
    /\ Len(optional_utxos) = 3
    /\ Len(result.selected) = 3
    /\ result.selected[1] = required_utxos[1].utxo
    /\ result.selected[1].value + result.selected[2].value
          < target_amount + FeeOf(required_utxos[1]) + 68
    /\ SelectedValue >= target_amount + result.fee_amount

\* the values of the UTXOs of one group, summed
TotalValue(group) == SumSeq([i \in DOMAIN group |-> ValueOf(group[i])])

\* C25: in a successful result of LargestFirst the selected optional UTXOs
\* are whole optional groups, and every selected group has a total value that
\* is at least the total value of every optional group that was left.
C25_LargestGroupsSelected ==
    (IsOk /\ ByLargestFirst) =>
        \E gs \in group_utxos_if_applies(optional_utxos, avoid_partial_spends) :
           \E og \in Orderings(gs) :
              \E k \in 0..Len(og) :
                 /\ SelectedOptional = GroupUtxos(Flatten(SubSeq(og, 1, k)))
                 /\ \A i \in 1..k : \A j \in (k + 1)..Len(og) :
                       TotalValue(og[i]) >= TotalValue(og[j])

\* with grouping, LargestFirst selected the one UTXO of a script and left the
\* two UTXOs of another script, which together are worth less
C25_Witness ==
    /\ IsOk /\ algo = "LargestFirst" /\ avoid_partial_spends
    /\ Len(optional_utxos) = 3
    /\ Len(SelectedOptional) = 1
    /\ optional_utxos[3].utxo = SelectedOptional[1]
    /\ optional_utxos[1].utxo.script_pubkey = optional_utxos[2].utxo.script_pubkey
    /\ optional_utxos[1].utxo.script_pubkey # optional_utxos[3].utxo.script_pubkey
    /\ optional_utxos[1].utxo.outpoint # optional_utxos[2].utxo.outpoint
    /\ optional_utxos[1].utxo.value + optional_utxos[2].utxo.value
          < optional_utxos[3].utxo.value

\* sum of f over the required UTXOs
SumOverRequired(f(_)) == SumSeq([i \in DOMAIN required_utxos |-> f(required_utxos[i])])

\* C26: when the effective values of the required UTXOs add up to more than
\* target_amount, coin_select of BranchAndBound returns, without an iteration
\* of the search and without the fallback, a result whose selected UTXOs are
\* the required UTXOs, each as often as it is required, and nothing else, with
\* fee_amount the sum of their fees and excess = decide_change of the required
\* effective sum less the target.
C26_RequiredAreEnough ==
    (algo = "BranchAndBound" /\ SumOverRequired(ExpectedEffectiveValue) > target_amount) =>
        /\ pc = "done"
        /\ path = "required_only"
        /\ result.tag = "Ok"
        /\ Len(result.selected) = Len(required_utxos)
        /\ \A i \in DOMAIN required_utxos :
              Occurrences(result.selected, required_utxos[i].utxo)
                 = Occurrences([j \in DOMAIN required_utxos |-> required_utxos[j].utxo],
                               required_utxos[i].utxo)
        /\ result.fee_amount = SumOverRequired(FeeOf)
        /\ result.excess = decide_change(SumOverRequired(ExpectedEffectiveValue)
                                            - target_amount, fee_rate, drain_script)
        /\ bnb.tries = 0
        /\ bnb.fallback_algorithm = "none"

\* two required UTXOs were enough and an optional UTXO that is worth spending
\* and is not required was left
C26_Witness ==
    /\ IsOk /\ path = "required_only"
    /\ Len(required_utxos) = 2
    /\ SumOverRequired(ExpectedEffectiveValue) > target_amount
    /\ \E i \in PositiveOptional :
          \A j \in DOMAIN required_utxos : required_utxos[j].utxo # optional_utxos[i].utxo

\* the OutputGroups of the pool of bnb, one group after the other
PoolOgs == Flatten(bnb.optional_utxos)

\* C27: a result of the search of bnb or of the required-only return holds,
\* besides the required UTXOs, only optional UTXOs of positive effective
\* value.  The pool of the search holds one group for every optional group of
\* the request, empty when all its UTXOs were removed, and in it exactly the
\* optional UTXOs of positive effective value: the effective values, fees and
\* values of the pool add up to those of these UTXOs.
C27_NoWorthlessOptionalInSearch ==
    /\ (IsOk /\ path \in {"bnb", "required_only"}) =>
          \A j \in DOMAIN SelectedOptional :
             \E i \in PositiveOptional : optional_utxos[i].utxo = SelectedOptional[j]
    /\ (algo = "BranchAndBound" /\ (pc = "bnb" \/ path \in {"bnb", "fallback"})) =>
          /\ \A i \in DOMAIN PoolOgs : PoolOgs[i].effective_value > 0
          /\ \E gs \in group_utxos_if_applies(optional_utxos, avoid_partial_spends) :
                Len(bnb.optional_utxos) = Len(gs)
          /\ Len(PoolOgs) = Cardinality(PositiveOptional)
          /\ SumSeq([i \in DOMAIN PoolOgs |-> PoolOgs[i].effective_value])
                = SumOverSpendable(ExpectedEffectiveValue)
                  - SumOverRequired(ExpectedEffectiveValue)
          /\ SumSeq([i \in DOMAIN PoolOgs |-> PoolOgs[i].fee])
                = SumOverSpendable(FeeOf) - SumOverRequired(FeeOf)
          /\ SumSeq([i \in DOMAIN PoolOgs |-> PoolOgs[i].weighted_utxo.utxo.value])
                = SumOverSpendable(ValueOf) - SumOverRequired(ValueOf)

\* the search succeeded on a pool with a group that was emptied
C27_Witness ==
    /\ IsOk /\ path = "bnb"
    /\ \E g \in DOMAIN bnb.optional_utxos : bnb.optional_utxos[g] = <<>>
    /\ Len(SelectedOptional) >= 1
    /\ Cardinality(PositiveOptional) < Len(optional_utxos)

\* C28 as stated: whenever the search of bnb succeeds the excess is NoChange,
\* for any fee rate, size_of_change and drain script.
C28_SearchSuccessIsNoChange ==
    (IsOk /\ path = "bnb") => result.excess.kind = "NoChange"

\* C28: whenever the search of bnb succeeds and cost_of_change exceeds the fee
\* of the change output of the drain script by no more than the dust
\* threshold of the drain script, the excess is NoChange; this is the case at
\* every fee rate when size_of_change is not greater than the size of the
\* change output (the script, its length prefix and 8 bytes).
C28_NoChangeWhenChangeFeeCovers ==
    (IsOk /\ path = "bnb") =>
        /\ ExpectedCostOfChange - ExpectedChangeFee <= minimal_non_dust(drain_script) =>
              result.excess.kind = "NoChange"
        /\ bnb.size_of_change <= SerializeLen(drain_script) + 8 =>
              /\ ExpectedCostOfChange <= ExpectedChangeFee
              /\ result.excess.kind = "NoChange"

\* the search left more than the fee of a change output, with a size of
\* change above the size of the change output, and the rest is dust
C28_Witness ==
    /\ IsOk /\ path = "bnb"
    /\ bnb.size_of_change > SerializeLen(drain_script) + 8
    /\ ExpectedCostOfChange - ExpectedChangeFee <= minimal_non_dust(drain_script)
    /\ result.excess.kind = "NoChange"
    /\ result.excess.remaining_amount > ExpectedChangeFee

\* the effective values of the groups of the pool at the positions of I, summed
PoolEffectiveValue(I) ==
    SumSeq([k \in DOMAIN bnb.optional_utxos |->
              IF k \in I THEN GroupEffectiveValue(bnb.optional_utxos[k]) ELSE 0])

\* the positions of the pool that current_selection has not decided yet
Undecided == (Len(bnb.current_selection) + 1)..Len(bnb.optional_utxos)

\* the positions of the pool that current_selection flags true
Included == {k \in DOMAIN bnb.current_selection : bnb.current_selection[k]}

\* the iteration at hand moves forward: it decides one more group
MovesForward ==
    Len(BnbBody(bnb).b.current_selection) = Len(bnb.current_selection) + 1

\* C29: at the start of every iteration of the loop of bnb, current_selection
\* is not longer than the pool, curr_available_value is the effective value of
\* the undecided groups and is not negative, and curr_value is the effective
\* value of the required UTXOs and the groups flagged true.  The iteration
\* indexes the pool within its bounds: it moves forward only when a group is
\* undecided, and when it goes back and continues the selection it leaves is
\* not empty and ends with a false flag.
C29_BnbLoopInvariant ==
    pc = "bnb" =>
        /\ Len(bnb.current_selection) <= Len(bnb.optional_utxos)
        /\ bnb.curr_available_value = PoolEffectiveValue(Undecided)
        /\ bnb.curr_available_value >= 0
        /\ bnb.curr_value = RequiredEffectiveValue + PoolEffectiveValue(Included)
        /\ BnbBody(bnb).status # "panic"
        /\ MovesForward => Undecided # {}
        /\ (BnbBody(bnb).status = "continue" /\ ~MovesForward) =>
              /\ Len(BnbBody(bnb).b.current_selection) >= 1
              /\ Len(BnbBody(bnb).b.current_selection) <= Len(bnb.current_selection)
              /\ ~BnbBody(bnb).b.current_selection[Len(BnbBody(bnb).b.current_selection)]

\* an iteration starts with every group of the large pool decided, some
\* included and some left out, and goes back
C29_Witness ==
    /\ pc = "bnb"
    /\ Len(bnb.optional_utxos) >= 20
    /\ Undecided = {}
    /\ Included # {}
    /\ Included # DOMAIN bnb.optional_utxos
    /\ bnb.curr_available_value = 0
    /\ ~MovesForward
    /\ BnbBody(bnb).status = "continue"

\* C30: group_utxos_if_applies returns no empty group, with and without
\* grouping, and for an empty input it returns no group at all; so the first
\* UTXO of every group, whose chain position is the sort key of OldestFirst,
\* exists and is a UTXO of the input.  (The outpoint of a UTXO of these
\* requests is its position in the input.)
C30_NoEmptyGroup ==
    (IsDone /\ algo = "group_utxos_if_applies") =>
        /\ \A g \in DOMAIN result.groups :
              /\ result.groups[g] # <<>>
              /\ Len(result.groups[g]) >= 1
              /\ result.groups[g][1].utxo.outpoint \in DOMAIN optional_utxos
              /\ OldestKey(result.groups[g])
                    = ChainPositionKey(optional_utxos[result.groups[g][1].utxo.outpoint])
        /\ optional_utxos = <<>> => result.groups = <<>>
        /\ optional_utxos # <<>> => result.groups # <<>>

\* 200 UTXOs of one script were grouped into two full groups and nothing else
C30_Witness ==
    /\ IsDone /\ algo = "group_utxos_if_applies" /\ avoid_partial_spends
    /\ Len(optional_utxos) = 2 * OUTPUT_GROUP_MAX_ENTRIES
    /\ OptionalScripts = {"A"}
    /\ Len(result.groups) = 2
    /\ \A g \in DOMAIN result.groups : Len(result.groups[g]) = OUTPUT_GROUP_MAX_ENTRIES

====
